---------------------------- MODULE Spec2Model ----------------------------
(***************************************************************************)
(* A model of the pegboard solver (github.com/WillMorrison/pegboard-blog): *)
(* the grid primitives, the stone placers, and the three Solver            *)
(* implementations (SingleThreadedSolver, AsyncSolver,                     *)
(* AsyncSplittingSolver) with their goroutines and channels.               *)
(***************************************************************************)
EXTENDS Integers, Sequences, FiniteSets

(***************************************************************************)
(* Bounds of the model.                                                    *)
(***************************************************************************)
\* Largest grid side explored by the sequential solver.
MaxSeqSize == 3
\* Largest grid side explored by the parallel solvers.
MaxParSize == 3
\* Largest grid side the parallel solvers explore with the unordered placer.
MaxUnorderedParSize == 2
\* Largest value of runtime.NumCPU() explored.
MaxWorkers == 2

(***************************************************************************)
(* package grid                                                            *)
(***************************************************************************)
Point(r, c) == [Row |-> r, Col |-> c]

\* The zero value grid.Point{}.
ZeroPoint == Point(0, 0)

\* All in-bounds points of a grid of side g.
GridPoints(g) == {Point(r, c) : r \in 0 .. g - 1, c \in 0 .. g - 1}

IsInBounds(g, p) == p.Row < g /\ p.Col < g

\* Variant: a top to bottom, left to right traversal.
AdvanceStoneColumnMajor(g, p) ==
    IF p.Row + 1 = g THEN Point(0, p.Col + 1) ELSE Point(p.Row + 1, p.Col)

\* uint8 arithmetic: the column and the row wrap at 256.
AdvanceStone(g, p) ==
    LET col == (p.Col + 1) % 256
    IN  IF col = g THEN Point((p.Row + 1) % 256, 0) ELSE Point(p.Row, col)

LessThan(p1, p2) ==
    p1.Row < p2.Row \/ (p1.Row = p2.Row /\ p1.Col < p2.Col)

\* Variant: the squared distance computed in the uint8 of the coordinates.
SeparationInUint8(p1, p2) ==
    ((p1.Row - p2.Row) * (p1.Row - p2.Row)
       + (p1.Col - p2.Col) * (p1.Col - p2.Col)) % 256

\* The squared distance, computed in int16 and converted to uint16.
Separation(p1, p2) ==
    ((p1.Row - p2.Row) * (p1.Row - p2.Row)
       + (p1.Col - p2.Col) * (p1.Col - p2.Col)) % 65536

\* Placements.Sort: the points in row-major order (insertion into a sorted
\* sequence; the order of equal points is immaterial).
RECURSIVE SortInsert(_, _)
SortInsert(s, p) ==
    IF s = <<>> THEN <<p>>
    ELSE IF LessThan(p, Head(s)) THEN <<p>> \o s
    ELSE <<Head(s)>> \o SortInsert(Tail(s), p)

RECURSIVE Sort(_)
Sort(p) == IF p = <<>> THEN <<>> ELSE SortInsert(Sort(Tail(p)), Head(p))

\* The pairs i < j of indexes of a sequence.
IndexPairs(p) == {ij \in (1 .. Len(p)) \X (1 .. Len(p)) : ij[1] < ij[2]}

\* CheckValidSolution(g, p) == nil.
CheckValidSolution(g, p) ==
    /\ Len(p) = g
    /\ \A i \in 1 .. Len(p) : IsInBounds(g, p[i])
    /\ \A ij \in IndexPairs(p) : Separation(p[ij[1]], p[ij[2]]) # 0
    /\ \A ij, kl \in IndexPairs(p) :
          ij # kl => Separation(p[ij[1]], p[ij[2]]) # Separation(p[kl[1]], p[kl[2]])

(***************************************************************************)
(* package sets (as far as the placers use it)                             *)
(***************************************************************************)
\* Variant: only the separations of neighbouring stones of the sequence.
NewSeparationSetAdjacent(p) ==
    {Separation(p[i], p[i + 1]) : i \in 1 .. (Len(p) - 1)}

\* NewMapSeparationSet / NewBitArraySeparationSet: the separations of all
\* pairs of the given placements.
NewSeparationSet(p) ==
    {Separation(p[ij[1]], p[ij[2]]) : ij \in IndexPairs(p)}

\* The points of a sequence as a set (NewMapPointSet / NewBitArrayPointSet).
NewPointSet(p) == {p[i] : i \in 1 .. Len(p)}

\* BitArrayPointSet.Elements: the members in row-major order.
RECURSIVE SortedElements(_)
SortedElements(ps) ==
    IF ps = {} THEN <<>>
    ELSE LET m == CHOOSE x \in ps : \A y \in ps : x = y \/ LessThan(x, y)
         IN  <<m>> \o SortedElements(ps \ {m})

\* All orders in which a map iteration can yield the members.
ElementOrders(ps) ==
    {s \in [1 .. Cardinality(ps) -> ps] : \A x \in ps : \E i \in DOMAIN s : s[i] = x}

\* PointSet.Elements for the two families: the map yields any order.
Elements(family, ps) ==
    IF family = "map" THEN ElementOrders(ps) ELSE {SortedElements(ps)}

\* The values NewSeparationSetIteratorForGrid yields: the members from 1 up
\* to 2*(g-1)^2 (the iterator starts by incrementing sep from 0).
SeparationsForGrid(ss, g) ==
    {s \in ss : 1 =< s /\ s =< ((g - 1) * (g - 1) * 2) % 65536}

(***************************************************************************)
(* package pruner (runtime pruner)                                         *)
(***************************************************************************)
PruneIsoceles(g, ps, p1, p2) ==
    ps \cup {p3 \in GridPoints(g) : Separation(p1, p3) = Separation(p2, p3)}

\* Variant: prunes the circle of the next larger squared radius.
PruneCirclesNextRadius(g, ps, p1, sep) ==
    ps \cup {p2 \in GridPoints(g) : Separation(p1, p2) = sep + 1}

PruneCircles(g, ps, p1, sep) ==
    ps \cup {p2 \in GridPoints(g) : Separation(p1, p2) = sep}



(***************************************************************************)
(* package placer                                                          *)
(*                                                                         *)
(* A placer is a record [stones, separations, pruned, nextStone].  stones  *)
(* is a sequence (grid.Placements) for the ordered placers and a set       *)
(* (sets.PointSet) for the unordered placer; pruned is used by the pruning *)
(* placers only.  Each Place operator takes the receiver sp and the record *)
(* np that sp.nextPlacer points to (the allocation-free placers write into *)
(* it; the allocating ones ignore it) and returns                          *)
(*   err  whether errDistanceConstraintViolated is returned,               *)
(*   sp   the receiver after the call (its deferred cursor advance done),  *)
(*   mid  the nextPlacer record after copy(nextPlacer.stones, stones) and  *)
(*        before the cursor cell is stored in its last element,            *)
(*   np   the nextPlacer record when the call returns.                     *)
(***************************************************************************)
PlacerKinds ==
    {"ordered", "unordered", "orderedNoAlloc", "orderedPruningNoAlloc",
     "orderedOpportunisticPruningNoAlloc"}

\* The placers whose records live in a preallocated array, one per depth.
NoAllocKinds ==
    {"orderedNoAlloc", "orderedPruningNoAlloc",
     "orderedOpportunisticPruningNoAlloc"}

PruningKinds ==
    {"orderedPruningNoAlloc", "orderedOpportunisticPruningNoAlloc"}

\* make(grid.Placements, i): i zero points.
ZeroStones(i) == [k \in 1 .. i |-> ZeroPoint]

\* The record the providers put at depth i of the array before any Place.
FreshPlacer(i) ==
    [stones |-> ZeroStones(i), separations |-> {}, pruned |-> {},
     nextStone |-> ZeroPoint]

\* A slot of the array that holds no placer (allocating placers only).
NoPlacer(kind) ==
    [stones |-> IF kind = "unordered" THEN {} ELSE <<>>, separations |-> {},
     pruned |-> {}, nextStone |-> ZeroPoint]

\* Variant: the separations are recorded but a repeated one is not rejected.
RECURSIVE CheckSeparationsUnchecked(_, _, _, _)
CheckSeparationsUnchecked(stones, i, cursor, seps) ==
    IF i > Len(stones) THEN [ok |-> TRUE, seps |-> seps]
    ELSE CheckSeparationsUnchecked(stones, i + 1, cursor,
                                   seps \cup {Separation(cursor, stones[i])})

\* The loop `for _, p := range stones { s := Separation(nextStone, p);
\* if separations.Has(s) { return err }; separations.Add(s) }` from index i.
RECURSIVE CheckSeparations(_, _, _, _)
CheckSeparations(stones, i, cursor, seps) ==
    IF i > Len(stones) THEN [ok |-> TRUE, seps |-> seps]
    ELSE LET s == Separation(cursor, stones[i])
         IN  IF s \in seps THEN [ok |-> FALSE, seps |-> seps]
             ELSE CheckSeparations(stones, i + 1, cursor, seps \cup {s})

\* Variant: a Place that fails leaves the cursor where it was.
OrderedPlaceKeepsCursorOnError(g, sp, np) ==
    LET chk == CheckSeparations(sp.stones, 1, sp.nextStone, sp.separations)
        adv == AdvanceStone(g, sp.nextStone)
        sp2 == [sp EXCEPT !.nextStone = adv]
        child == [stones |-> Append(sp.stones, sp.nextStone),
                  separations |-> chk.seps, pruned |-> {}, nextStone |-> adv]
    IN  IF chk.ok
        THEN [err |-> FALSE, sp |-> sp2, mid |-> child, np |-> child]
        ELSE [err |-> TRUE, sp |-> sp, mid |-> np, np |-> np]

\* orderedStonePlacer.Place
OrderedPlace(g, sp, np) ==
    LET chk == CheckSeparations(sp.stones, 1, sp.nextStone, sp.separations)
        adv == AdvanceStone(g, sp.nextStone)
        sp2 == [sp EXCEPT !.nextStone = adv]
        child == [stones |-> Append(sp.stones, sp.nextStone),
                  separations |-> chk.seps, pruned |-> {}, nextStone |-> adv]
    IN  IF chk.ok
        THEN [err |-> FALSE, sp |-> sp2, mid |-> child, np |-> child]
        ELSE [err |-> TRUE, sp |-> sp2, mid |-> np, np |-> np]

\* OrderedStonePlacerProvider.New
OrderedNew(g, p) ==
    [stones |-> p, separations |-> NewSeparationSet(p), pruned |-> {},
     nextStone |-> IF Len(p) > 0 THEN AdvanceStone(g, p[Len(p)]) ELSE ZeroPoint]

\* unorderedStonePlacer.advance: the next cell that holds no stone.  The
\* loop ends at the first point that is not a member, in or out of bounds.
RECURSIVE SkipOccupied(_, _, _)
SkipOccupied(g, stones, p) ==
    IF p \in stones THEN SkipOccupied(g, stones, AdvanceStone(g, p)) ELSE p

UnorderedAdvance(g, stones, p) == SkipOccupied(g, stones, AdvanceStone(g, p))

\* unorderedStonePlacer.Place.  The separations are checked in the order of
\* stones.Elements(); the outcome does not depend on that order, the sorted
\* one is used.
UnorderedPlace(g, sp, np) ==
    LET cur == IF sp.nextStone \in sp.stones
               THEN UnorderedAdvance(g, sp.stones, sp.nextStone)
               ELSE sp.nextStone
        chk == CheckSeparations(SortedElements(sp.stones), 1, cur, sp.separations)
        sp2 == [sp EXCEPT !.nextStone = UnorderedAdvance(g, sp.stones, cur)]
        child == [stones |-> sp.stones \cup {cur}, separations |-> chk.seps,
                  pruned |-> {}, nextStone |-> ZeroPoint]
    IN  IF chk.ok
        THEN [err |-> FALSE, sp |-> sp2, mid |-> child, np |-> child]
        ELSE [err |-> TRUE, sp |-> sp2, mid |-> np, np |-> np]

\* UnorderedStonePlacerProvider.New
UnorderedNew(g, p) ==
    [stones |-> NewPointSet(p), separations |-> NewSeparationSet(p),
     pruned |-> {}, nextStone |-> ZeroPoint]

\* copy(nextPlacer.stones, stones): the first len(stones) elements of the
\* destination are overwritten, the rest is kept.
CopyStones(dst, src) ==
    [k \in 1 .. Len(dst) |-> IF k =< Len(src) THEN src[k] ELSE dst[k]]

\* Variant: the separations are added to the receiver's own set.
OrderedNoAllocPlaceInPlace(g, sp, np) ==
    LET chk == CheckSeparations(sp.stones, 1, sp.nextStone, sp.separations)
        adv == AdvanceStone(g, sp.nextStone)
        sp2 == [sp EXCEPT !.nextStone = adv, !.separations = chk.seps]
        dirty == [np EXCEPT !.separations = chk.seps]
        mid == [dirty EXCEPT !.stones = CopyStones(np.stones, sp.stones)]
        child == [mid EXCEPT !.stones[Len(sp.stones) + 1] = sp.nextStone,
                             !.nextStone = adv]
    IN  IF chk.ok
        THEN [err |-> FALSE, sp |-> sp2, mid |-> mid, np |-> child]
        ELSE [err |-> TRUE, sp |-> sp2, mid |-> dirty, np |-> dirty]

\* orderedNoAllocStonePlacer.Place
OrderedNoAllocPlace(g, sp, np) ==
    LET chk == CheckSeparations(sp.stones, 1, sp.nextStone, sp.separations)
        adv == AdvanceStone(g, sp.nextStone)
        sp2 == [sp EXCEPT !.nextStone = adv]
        dirty == [np EXCEPT !.separations = chk.seps]
        mid == [dirty EXCEPT !.stones = CopyStones(np.stones, sp.stones)]
        child == [mid EXCEPT !.stones[Len(sp.stones) + 1] = sp.nextStone,
                             !.nextStone = adv]
    IN  IF chk.ok
        THEN [err |-> FALSE, sp |-> sp2, mid |-> mid, np |-> child]
        ELSE [err |-> TRUE, sp |-> sp2, mid |-> dirty, np |-> dirty]

\* advance of the pruning placers: the next cell that is not pruned, or the
\* first cell out of bounds.
RECURSIVE SkipPruned(_, _, _)
SkipPruned(g, pruned, p) ==
    IF IsInBounds(g, p) /\ p \in pruned
    THEN SkipPruned(g, pruned, AdvanceStone(g, p))
    ELSE p

\* Variant: the cursor moves to the next cell, pruned or not.
PruningAdvanceOneCell(g, pruned, p) == AdvanceStone(g, p)

PruningAdvance(g, pruned, p) == SkipPruned(g, pruned, AdvanceStone(g, p))

\* The first loop of orderedPruningNoAllocStonePlacer.Place from index i:
\* checks and adds the separations and prunes the isoceles triangles.
RECURSIVE PruningCheck(_, _, _, _, _, _)
PruningCheck(g, stones, i, cursor, seps, pruned) ==
    IF i > Len(stones) THEN [ok |-> TRUE, seps |-> seps, pruned |-> pruned]
    ELSE LET s == Separation(cursor, stones[i])
         IN  IF s \in seps THEN [ok |-> FALSE, seps |-> seps, pruned |-> pruned]
             ELSE PruningCheck(g, stones, i + 1, cursor, seps \cup {s},
                               PruneIsoceles(g, pruned, stones[i], cursor))

\* Variant: no circle is pruned.
PruneNoCircles(g, pruned, points, seps) == pruned

\* The union of PruneCircles(pruned, p, sep) over the given points and
\* separations (the order of the calls does not matter for a union).
PruneAllCircles(g, pruned, points, seps) ==
    pruned \cup {q \in GridPoints(g) :
                    \E p \in points, s \in seps : Separation(p, q) = s}

\* orderedPruningNoAllocStonePlacer.Place
OrderedPruningNoAllocPlace(g, sp, np) ==
    LET chk == PruningCheck(g, sp.stones, 1, sp.nextStone, sp.separations, sp.pruned)
        sp2 == [sp EXCEPT !.nextStone = PruningAdvance(g, sp.pruned, sp.nextStone)]
        dirty == [np EXCEPT !.separations = chk.seps, !.pruned = chk.pruned]
        newSeparations ==
            {Separation(sp.nextStone, sp.stones[i]) : i \in 1 .. Len(sp.stones)}
        pr1 == PruneAllCircles(g, chk.pruned, NewPointSet(sp.stones), newSeparations)
        pr2 == PruneAllCircles(g, pr1, {sp.nextStone}, SeparationsForGrid(chk.seps, g))
        mid == [np EXCEPT !.separations = chk.seps, !.pruned = pr2,
                          !.stones = CopyStones(np.stones, sp.stones)]
        child == [mid EXCEPT !.stones[Len(sp.stones) + 1] = sp.nextStone,
                             !.nextStone = PruningAdvance(g, pr2, sp.nextStone)]
    IN  IF chk.ok
        THEN [err |-> FALSE, sp |-> sp2, mid |-> mid, np |-> child]
        ELSE [err |-> TRUE, sp |-> sp2, mid |-> dirty, np |-> dirty]

\* The loop of orderedOpportunisticPruningNoAllocStonePlacer.Place.
RECURSIVE OpportunisticCheck(_, _, _, _, _, _)
OpportunisticCheck(g, stones, i, cursor, seps, pruned) ==
    IF i > Len(stones) THEN [ok |-> TRUE, seps |-> seps, pruned |-> pruned]
    ELSE LET s == Separation(cursor, stones[i])
         IN  IF s \in seps THEN [ok |-> FALSE, seps |-> seps, pruned |-> pruned]
             ELSE OpportunisticCheck(g, stones, i + 1, cursor, seps \cup {s},
                    PruneCircles(g,
                      PruneCircles(g,
                        PruneIsoceles(g, pruned, stones[i], cursor),
                        stones[i], s),
                      cursor, s))

\* orderedOpportunisticPruningNoAllocStonePlacer.Place
OrderedOpportunisticPruningNoAllocPlace(g, sp, np) ==
    LET chk == OpportunisticCheck(g, sp.stones, 1, sp.nextStone,
                                  sp.separations, sp.pruned)
        sp2 == [sp EXCEPT !.nextStone = PruningAdvance(g, sp.pruned, sp.nextStone)]
        dirty == [np EXCEPT !.separations = chk.seps, !.pruned = chk.pruned]
        mid == [dirty EXCEPT !.stones = CopyStones(np.stones, sp.stones)]
        child == [mid EXCEPT !.stones[Len(sp.stones) + 1] = sp.nextStone,
                             !.nextStone = PruningAdvance(g, chk.pruned, sp.nextStone)]
    IN  IF chk.ok
        THEN [err |-> FALSE, sp |-> sp2, mid |-> mid, np |-> child]
        ELSE [err |-> TRUE, sp |-> sp2, mid |-> dirty, np |-> dirty]

\* StonePlacer.Place, by implementation.
Place(kind, g, sp, np) ==
    CASE kind = "ordered" -> OrderedPlace(g, sp, np)
      [] kind = "unordered" -> UnorderedPlace(g, sp, np)
      [] kind = "orderedNoAlloc" -> OrderedNoAllocPlace(g, sp, np)
      [] kind = "orderedPruningNoAlloc" -> OrderedPruningNoAllocPlace(g, sp, np)
      [] OTHER -> OrderedOpportunisticPruningNoAllocPlace(g, sp, np)

\* Variant: done as soon as the cursor is on the last cell.
DoneAtLastCell(g, sp) == ~IsInBounds(g, AdvanceStone(g, sp.nextStone))

\* StonePlacer.Done
Done(g, sp) == ~IsInBounds(g, sp.nextStone)

\* len(sp.Placements())
NumPlaced(kind, sp) ==
    IF kind = "unordered" THEN Cardinality(sp.stones) ELSE Len(sp.stones)

\* The values sp.Placements() can return (several for the unordered placer
\* over a map-based point set, whose Elements() has no fixed order).
Placements(kind, family, sp) ==
    IF kind = "unordered" THEN Elements(family, sp.stones) ELSE {sp.stones}

\* The one element of a singleton set (binds a computed value once).
TheOne(S) == CHOOSE x \in S : TRUE

\* One iteration of the loop of the allocation-free providers' New:
\*   sp.nextStone = p[i]; sp.Place(); sp = sp.nextPlacer
\* on the placer at depth d of the array.
PlaceSeedStone(kind, g, arr, d, stone) ==
    TheOne({[arr EXCEPT ![d] = r.sp, ![d + 1] = r.np] :
               r \in {Place(kind, g, [arr[d] EXCEPT !.nextStone = stone],
                            arr[d + 1])}})

\* The array of placers OrderedNoAllocStonePlacerProvider.New (and the New
\* of the two pruning providers) builds, after the seed stones from index i
\* on have been placed in order; panic records "Invalid placement, already
\* pruned".  The error Place returns for a seed stone is ignored.
RECURSIVE NoAllocNewFrom(_, _, _, _, _, _)
NoAllocNewFrom(kind, g, arr, sorted, i, panic) ==
    IF i > Len(sorted) THEN [placers |-> arr, panic |-> panic]
    ELSE IF kind \in PruningKinds /\ sorted[i] \in arr[i - 1].pruned
    THEN [placers |-> arr, panic |-> TRUE]
    ELSE TheOne({NoAllocNewFrom(kind, g, next, sorted, i + 1, panic) :
                    next \in {PlaceSeedStone(kind, g, arr, i - 1, sorted[i])}})

\* The depths of the placer objects of one search: 0 .. Size, and one more
\* for the child an allocating placer creates from a complete placer.
Depths(g) == 0 .. g + 1

\* StonePlacerConstructor.New, by implementation: the placer objects by
\* depth (number of stones placed) and the depth of the placer returned.
\* The allocating providers create one object, at the depth of the seed.
New(kind, g, p) ==
    IF kind \in NoAllocKinds
    THEN LET r == NoAllocNewFrom(kind, g,
                    [d \in Depths(g) |-> IF d =< g THEN FreshPlacer(d) ELSE NoPlacer(kind)],
                    Sort(p), 1, FALSE)
         IN  [placers |-> r.placers, base |-> Len(p), panic |-> r.panic]
    ELSE LET sp == IF kind = "ordered" THEN OrderedNew(g, p) ELSE UnorderedNew(g, p)
             b == NumPlaced(kind, sp)
         IN  [placers |-> [d \in Depths(g) |-> IF d = b THEN sp ELSE NoPlacer(kind)],
              base |-> b, panic |-> FALSE]

(***************************************************************************)
(* package solver: starting points                                         *)
(***************************************************************************)
\* EmptyStartingPoint
EmptyStartingPoint(g) == << <<>> >>

\* The two nested uint8 loops of SingleOctantStartingPoints from (i, j).
RECURSIVE OctantFrom(_, _, _)
OctantFrom(g, i, j) ==
    IF (i * 2) % 256 >= g THEN <<>>
    ELSE IF (j * 2) % 256 >= g THEN OctantFrom(g, (i + 1) % 256, (i + 1) % 256)
    ELSE << <<Point(i, j)>> >> \o OctantFrom(g, i, (j + 1) % 256)

\* Variant: the inner loop of the first row starts after the diagonal.
SingleOctantStartingPointsOffDiagonal(g) == OctantFrom(g, 0, 1)

SingleOctantStartingPoints(g) == OctantFrom(g, 0, 0)

\* A caller-supplied StartingPointsProvider: one stone on each cell of the
\* last row.  From these seeds an ordered placer can only fill the last row.
LastRowStartingPoints(g) == [k \in 1 .. g |-> <<Point(g - 1, k - 1)>>]

Providers == {"empty", "octant", "lastRow"}

StartingPoints(provider, g) ==
    CASE provider = "empty" -> EmptyStartingPoint(g)
      [] provider = "octant" -> SingleOctantStartingPoints(g)
      [] OTHER -> LastRowStartingPoints(g)

(***************************************************************************)
(* State                                                                   *)
(***************************************************************************)
VARIABLES
    cfg,        \* the Solver value and the grid Solve is called with
    mainpc,     \* where the goroutine that called Solve is
    result,     \* what Solve returned: [err, sol]
    seedIdx,    \* index of the next starting point (Solve's loop, the feeder)
    pc,         \* where each search goroutine (dfs or worker) is
    placers,    \* the placer objects of each search goroutine, by depth
    base,       \* depth of the placer New returned to each search goroutine
    top,        \* depth of the placer of each goroutine's innermost dfs call
    pending,    \* per search goroutine: the slice it is sending, or the
                \* worker whose request it is answering
    done,       \* whether the done channel is closed
    solutions,  \* content of the solutions channel (capacity 1)
    suppc,      \* where the supervisor goroutine is
    feeder,     \* the goroutine that queues the starting points: [pc, to]
    work,       \* content of the work channel: the workers whose request it holds
    buf,        \* per worker: content of its request's Placements buffer
    answering,  \* per search goroutine: the worker whose request it took
    inbox,      \* per worker: the slice it received on its Response channel
    hist        \* history of the run (what the claims talk about)

\* The state only AsyncSplittingSolver uses.
splitVars == <<feeder, work, buf, answering, inbox>>

vars == <<cfg, mainpc, result, seedIdx, pc, placers, base, top, pending, done,
          solutions, suppc, splitVars, hist>>

\* A grid.Placements value held outside the placer that produced it.  A
\* slice returned by Placements() of an allocation-free placer shares the
\* storage of that placer's stones: owner names the search goroutine whose
\* depth-Size record it aliases.  Any other slice is a value (owner 0).
ValueSlice(val) == [owner |-> 0, val |-> val]

AliasSlice(g) == [owner |-> g, val |-> <<>>]

\* The nil grid.Placements.
NilSlice == [owner |-> -1, val |-> <<>>]

\* What a reader of the slice sees now.
Deref(sl) ==
    IF sl.owner > 0 THEN placers[sl.owner][cfg.size].stones ELSE sl.val

\* The slices Placements() of a complete placer of goroutine g can return.
SolutionSlices(g, sp) ==
    IF cfg.placer \in NoAllocKinds THEN {AliasSlice(g)}
    ELSE {ValueSlice(pl) : pl \in Placements(cfg.placer, cfg.pointSet, sp)}

\* The starting placements of the call: those of the provider, or the one
\* placement a caller-supplied provider returns.
Seeds ==
    IF cfg.provider = "given" THEN <<cfg.seed>>
    ELSE StartingPoints(cfg.provider, cfg.size)

\* The search goroutines of the call: Solve itself (1) for the sequential
\* solver, one per starting point for AsyncSolver, the workers otherwise.
Searchers == DOMAIN pc

Cur(g) == placers[g][top[g]]

\* The record sp.nextPlacer of the current placer points to (the
\* allocating placers have none and do not read it).
Nxt(g) ==
    IF cfg.placer \in NoAllocKinds THEN placers[g][top[g] + 1] ELSE NoPlacer(cfg.placer)

\* The placer objects of g after the Place call with result r on its current
\* placer: the receiver's cursor has moved; the record nextPlacer points to
\* was written (allocation-free placers) or a new child object exists (a
\* successful Place of an allocating placer).
AfterPlace(g, r) ==
    IF cfg.placer \in NoAllocKinds \/ ~r.err
    THEN [placers[g] EXCEPT ![top[g]] = r.sp, ![top[g] + 1] = r.np]
    ELSE [placers[g] EXCEPT ![top[g]] = r.sp]

\* A slice travelling on a Response channel: store names whose storage it
\* refers to (the requesting worker's own buffer when store is that worker,
\* the record at the given depth of a sender's placers otherwise; 0 is a
\* starting point's own storage), sent is its content when it was sent.
NoInbox == [store |-> -1, depth |-> 0, sent |-> <<>>]

NoHistory == [solSent |-> FALSE, sendAfterClose |-> FALSE]

\* The configurations: the unordered placer is built over either point set
\* family, the other placers do not use one.
Configs(solver, sizes, kinds, providers, workers) ==
    {c \in [solver : {solver}, size : sizes, placer : kinds,
            provider : providers, pointSet : {"map", "array"},
            numWorkers : workers] :
        c.placer # "unordered" => c.pointSet = "array"}

\* The configurations of the parallel solvers: the unordered placer, whose
\* search tree holds every order of every placement, on the smaller grids.
ParConfigs(solver, workers) ==
    {c \in Configs(solver, 1 .. MaxParSize, PlacerKinds, Providers, workers) :
        c.placer = "unordered" => c.size =< MaxUnorderedParSize}

InitRun(c, searchers) ==
    /\ cfg = c
    /\ mainpc = "start"
    /\ result = [err |-> FALSE, sol |-> NilSlice]
    /\ seedIdx = 1
    /\ pc = [g \in searchers |-> "idle"]
    /\ placers = [g \in searchers |-> [d \in Depths(c.size) |-> NoPlacer(c.placer)]]
    /\ base = [g \in searchers |-> 0]
    /\ top = [g \in searchers |-> 0]
    /\ pending = [g \in searchers |-> NilSlice]
    /\ done = FALSE
    /\ solutions = <<>>
    /\ suppc = "idle"
    /\ feeder = [pc |-> "idle", to |-> 0]
    /\ work = <<>>
    /\ buf = [g \in searchers |-> <<>>]
    /\ answering = [g \in searchers |-> 0]
    /\ inbox = [g \in searchers |-> NoInbox]
    /\ hist = NoHistory

(***************************************************************************)
(* SingleThreadedSolver                                                    *)
(***************************************************************************)
\* Solve: the next starting point, start := New(g, sp); dfs(start).
SeqNextSeed ==
    /\ mainpc \in {"start", "loop"}
    /\ seedIdx =< Len(Seeds)
    /\ \E n \in {New(cfg.placer, cfg.size, Seeds[seedIdx])} :
           /\ placers' = [placers EXCEPT ![1] = n.placers]
           /\ base' = [base EXCEPT ![1] = n.base]
           /\ top' = [top EXCEPT ![1] = n.base]
    /\ pc' = [pc EXCEPT ![1] = "enter"]
    /\ mainpc' = "dfs"
    /\ UNCHANGED <<cfg, result, seedIdx, pending, done, solutions, suppc,
                   splitVars, hist>>

\* Solve: the starting points are exhausted, return nil, errNoSolutions.
SeqNoSolutions ==
    /\ mainpc \in {"start", "loop"}
    /\ seedIdx > Len(Seeds)
    /\ mainpc' = "returned"
    /\ result' = [err |-> TRUE, sol |-> NilSlice]
    /\ UNCHANGED <<cfg, seedIdx, pc, placers, base, top, pending, done,
                   solutions, suppc, splitVars, hist>>

\* dfs entry with len(sp.Placements()) == Size: every enclosing dfs call and
\* Solve return this placer's Placements().
SeqDfsFound ==
    /\ mainpc = "dfs" /\ pc[1] = "enter"
    /\ NumPlaced(cfg.placer, Cur(1)) = cfg.size
    /\ \E sl \in SolutionSlices(1, Cur(1)) :
          result' = [err |-> FALSE, sol |-> sl]
    /\ mainpc' = "returned"
    /\ pc' = [pc EXCEPT ![1] = "finished"]
    /\ UNCHANGED <<cfg, seedIdx, placers, base, top, pending, done, solutions,
                   suppc, splitVars, hist>>

\* dfs entry with fewer stones: go on to the loop.
SeqDfsDescend ==
    /\ mainpc = "dfs" /\ pc[1] = "enter"
    /\ NumPlaced(cfg.placer, Cur(1)) # cfg.size
    /\ pc' = [pc EXCEPT ![1] = "loop"]
    /\ UNCHANGED <<cfg, mainpc, result, seedIdx, placers, base, top, pending,
                   done, solutions, suppc, splitVars, hist>>

\* One iteration of dfs's loop: sp.Place(), then continue or recurse.
SeqDfsPlace ==
    /\ mainpc = "dfs" /\ pc[1] = "loop"
    /\ ~Done(cfg.size, Cur(1))
    /\ \E r \in {Place(cfg.placer, cfg.size, Cur(1), Nxt(1))} :
           /\ placers' = [placers EXCEPT ![1] = AfterPlace(1, r)]
           /\ top' = [top EXCEPT ![1] = IF r.err THEN @ ELSE @ + 1]
           /\ pc' = [pc EXCEPT ![1] = IF r.err THEN "loop" ELSE "enter"]
    /\ UNCHANGED <<cfg, mainpc, result, seedIdx, base, pending, done,
                   solutions, suppc, splitVars, hist>>

\* The loop ends (sp.Done()): dfs returns errNoSolutions to the enclosing
\* dfs call, which continues its loop, or to Solve, which takes the next
\* starting point.
SeqDfsBacktrack ==
    /\ mainpc = "dfs" /\ pc[1] = "loop"
    /\ Done(cfg.size, Cur(1))
    /\ IF top[1] = base[1]
       THEN /\ mainpc' = "loop"
            /\ seedIdx' = seedIdx + 1
            /\ pc' = [pc EXCEPT ![1] = "idle"]
            /\ UNCHANGED <<top, placers>>
       ELSE /\ top' = [top EXCEPT ![1] = @ - 1]
            /\ placers' = [placers EXCEPT
                  ![1] = IF cfg.placer \in NoAllocKinds THEN @
                         ELSE [@ EXCEPT ![top[1]] = NoPlacer(cfg.placer)]]
            /\ UNCHANGED <<mainpc, seedIdx, pc>>
    /\ UNCHANGED <<cfg, result, base, pending, done, solutions, suppc, splitVars, hist>>

SeqInit ==
    \E c \in Configs("single", 1 .. MaxSeqSize, PlacerKinds, Providers, {1}) :
        InitRun(c, {1})

SeqNext ==
    \/ SeqNextSeed
    \/ SeqNoSolutions
    \/ SeqDfsFound
    \/ SeqDfsDescend
    \/ SeqDfsPlace
    \/ SeqDfsBacktrack

SeqSpec == SeqInit /\ [][SeqNext]_vars

(***************************************************************************)
(* The goroutine that called Solve (both parallel solvers)                 *)
(***************************************************************************)
\* solution := <-solutions
MainRecv ==
    /\ mainpc = "recv"
    /\ solutions # <<>>
    /\ result' = [err |-> Head(solutions) = NilSlice, sol |-> Head(solutions)]
    /\ solutions' = Tail(solutions)
    /\ mainpc' = "close"
    /\ UNCHANGED <<cfg, seedIdx, pc, placers, base, top, pending, done, suppc,
                   splitVars, hist>>

\* close(done), then return solution, nil or nil, errNoSolutions.
MainClose ==
    /\ mainpc = "close"
    /\ done' = TRUE
    /\ mainpc' = "returned"
    /\ UNCHANGED <<cfg, result, seedIdx, pc, placers, base, top, pending,
                   solutions, suppc, splitVars, hist>>

(***************************************************************************)
(* The supervisor's final select (both parallel solvers)                   *)
(*   select { case <-done: return; case solutions <- nil: ; default: }     *)
(* A select takes any of its ready cases, and default only if none is.     *)
(***************************************************************************)
SupObservesDone ==
    /\ suppc = "select"
    /\ done
    /\ suppc' = "finished"
    /\ UNCHANGED <<cfg, mainpc, result, seedIdx, pc, placers, base, top,
                   pending, done, solutions, splitVars, hist>>

SupSendsNil ==
    /\ suppc = "select"
    /\ Len(solutions) < 1
    /\ solutions' = Append(solutions, NilSlice)
    /\ hist' = [hist EXCEPT !.sendAfterClose = @ \/ done]
    /\ suppc' = "finished"
    /\ UNCHANGED <<cfg, mainpc, result, seedIdx, pc, placers, base, top,
                   pending, done, splitVars>>

SupDefault ==
    /\ suppc = "select"
    /\ ~done /\ Len(solutions) >= 1
    /\ suppc' = "finished"
    /\ UNCHANGED <<cfg, mainpc, result, seedIdx, pc, placers, base, top,
                   pending, done, solutions, splitVars, hist>>

(***************************************************************************)
(* The dfs of the parallel solvers, for search goroutine g.  home is where *)
(* g goes when its outermost dfs call returns: "finished" for a goroutine  *)
(* of AsyncSolver (its deferred wg.Done() has run), "idle" for a worker of *)
(* AsyncSplittingSolver (back in the worker's loop).                       *)
(***************************************************************************)
\* The innermost dfs call of g returns.
DfsReturn(g, home) ==
    IF top[g] = base[g]
    THEN /\ pc' = [pc EXCEPT ![g] = home]
         /\ UNCHANGED <<top, placers>>
    ELSE /\ pc' = [pc EXCEPT ![g] = "loop"]
         /\ top' = [top EXCEPT ![g] = @ - 1]
         /\ placers' = [placers EXCEPT
               ![g] = IF cfg.placer \in NoAllocKinds THEN @
                      ELSE [@ EXCEPT ![top[g]] = NoPlacer(cfg.placer)]]

\* `for !sp.Done()` is false, or `case <-done: return`.
DfsLoopExit(g, home) ==
    /\ pc[g] = "loop"
    /\ Done(cfg.size, Cur(g)) \/ done
    /\ DfsReturn(g, home)
    /\ UNCHANGED <<cfg, mainpc, result, seedIdx, base, pending, done,
                   solutions, suppc, splitVars, hist>>

\* Variant: the loop does not look at done.
DfsLoopNoCheck(g) ==
    /\ pc[g] = "loop"
    /\ ~Done(cfg.size, Cur(g))
    /\ pc' = [pc EXCEPT ![g] = "place"]
    /\ UNCHANGED <<cfg, mainpc, result, seedIdx, placers, base, top, pending,
                   done, solutions, suppc, splitVars, hist>>

\* The loop condition holds and the select takes its default case.
DfsLoopCheck(g) ==
    /\ pc[g] = "loop"
    /\ ~Done(cfg.size, Cur(g)) /\ ~done
    /\ pc' = [pc EXCEPT ![g] = "place"]
    /\ UNCHANGED <<cfg, mainpc, result, seedIdx, placers, base, top, pending,
                   done, solutions, suppc, splitVars, hist>>

\* sp.Place() returns errDistanceConstraintViolated: continue.
DfsPlaceFails(g) ==
    /\ pc[g] = "place"
    /\ \E r \in {Place(cfg.placer, cfg.size, Cur(g), Nxt(g))} :
           /\ r.err
           /\ placers' = [placers EXCEPT ![g] = AfterPlace(g, r)]
    /\ pc' = [pc EXCEPT ![g] = "loop"]
    /\ UNCHANGED <<cfg, mainpc, result, seedIdx, base, top, pending, done,
                   solutions, suppc, splitVars, hist>>

\* sp.Place() of an allocation-free placer succeeds with the last stone:
\* copy(nextPlacer.stones, stones) has run and the cursor cell is not yet
\* stored.  The record written is the one a slice sent earlier on the
\* solutions channel refers to, so the two writes are separate steps.
DfsPlaceCopies(g) ==
    /\ pc[g] = "place"
    /\ cfg.placer \in NoAllocKinds
    /\ \E r \in {Place(cfg.placer, cfg.size, Cur(g), Nxt(g))} :
           /\ ~r.err
           /\ NumPlaced(cfg.placer, r.np) = cfg.size
           /\ placers' = [placers EXCEPT ![g][top[g] + 1] = r.mid]
    /\ pc' = [pc EXCEPT ![g] = "store"]
    /\ UNCHANGED <<cfg, mainpc, result, seedIdx, base, top, pending, done,
                   solutions, suppc, splitVars, hist>>

\* The rest of that Place: the last stone and the cursors are stored; the
\* placer is complete and dfs goes on to send nextState.Placements().
DfsPlaceStores(g) ==
    /\ pc[g] = "store"
    /\ \E r \in {Place(cfg.placer, cfg.size, Cur(g), Nxt(g))} :
           placers' = [placers EXCEPT ![g] = AfterPlace(g, r)]
    /\ pending' = [pending EXCEPT ![g] = AliasSlice(g)]
    /\ pc' = [pc EXCEPT ![g] = "send"]
    /\ UNCHANGED <<cfg, mainpc, result, seedIdx, base, top, done, solutions,
                   suppc, splitVars, hist>>

\* sp.Place() of an allocating placer succeeds with the last stone.
DfsPlaceCompletes(g) ==
    /\ pc[g] = "place"
    /\ cfg.placer \notin NoAllocKinds
    /\ \E r \in {Place(cfg.placer, cfg.size, Cur(g), Nxt(g))} :
           /\ ~r.err
           /\ NumPlaced(cfg.placer, r.np) = cfg.size
           /\ placers' = [placers EXCEPT ![g][top[g]] = r.sp]
           /\ \E sl \in SolutionSlices(g, r.np) :
                 pending' = [pending EXCEPT ![g] = sl]
    /\ pc' = [pc EXCEPT ![g] = "send"]
    /\ UNCHANGED <<cfg, mainpc, result, seedIdx, base, top, done, solutions,
                   suppc, splitVars, hist>>

\* solution <- nextState.Placements(); return.  The send blocks while the
\* channel's one slot is taken.
DfsSend(g, home) ==
    /\ pc[g] = "send"
    /\ Len(solutions) < 1
    /\ solutions' = Append(solutions, pending[g])
    /\ pending' = [pending EXCEPT ![g] = NilSlice]
    /\ hist' = [hist EXCEPT !.solSent = TRUE, !.sendAfterClose = @ \/ done]
    /\ DfsReturn(g, home)
    /\ UNCHANGED <<cfg, mainpc, result, seedIdx, base, done, suppc, splitVars>>

(***************************************************************************)
(* AsyncSolver                                                             *)
(***************************************************************************)
\* Solve up to its receive: one placer and one goroutine per starting point
\* (wg.Add(1) before each), then the supervisor goroutine.
AsyncStart ==
    /\ mainpc = "start"
    /\ placers' = [g \in Searchers |-> New(cfg.placer, cfg.size, Seeds[g]).placers]
    /\ base' = [g \in Searchers |-> New(cfg.placer, cfg.size, Seeds[g]).base]
    /\ top' = base'
    /\ pc' = [g \in Searchers |-> "loop"]
    /\ suppc' = "wait"
    /\ mainpc' = "recv"
    /\ UNCHANGED <<cfg, result, seedIdx, pending, done, solutions, splitVars, hist>>

\* sp.Place() succeeds with fewer than Size stones: s.dfs(nextState, ...).
AsyncPlaceRecurses(g) ==
    /\ pc[g] = "place"
    /\ \E r \in {Place(cfg.placer, cfg.size, Cur(g), Nxt(g))} :
           /\ ~r.err
           /\ NumPlaced(cfg.placer, r.np) # cfg.size
           /\ placers' = [placers EXCEPT ![g] = AfterPlace(g, r)]
    /\ top' = [top EXCEPT ![g] = @ + 1]
    /\ pc' = [pc EXCEPT ![g] = "loop"]
    /\ UNCHANGED <<cfg, mainpc, result, seedIdx, base, pending, done,
                   solutions, suppc, splitVars, hist>>

\* Variant: the supervisor does not wait for the search goroutines.
AsyncSupNoWait ==
    /\ suppc = "wait"
    /\ suppc' = "select"
    /\ UNCHANGED <<cfg, mainpc, result, seedIdx, pc, placers, base, top,
                   pending, done, solutions, splitVars, hist>>

\* wg.Wait() returns: every search goroutine has run its wg.Done().
AsyncSupWait ==
    /\ suppc = "wait"
    /\ \A g \in Searchers : pc[g] = "finished"
    /\ suppc' = "select"
    /\ UNCHANGED <<cfg, mainpc, result, seedIdx, pc, placers, base, top,
                   pending, done, solutions, splitVars, hist>>

AsyncInit ==
    \E c \in ParConfigs("async", {1}) :
        InitRun(c, 1 .. Len(StartingPoints(c.provider, c.size)))

AsyncNext ==
    \/ AsyncStart
    \/ MainRecv
    \/ MainClose
    \/ AsyncSupWait
    \/ SupObservesDone
    \/ SupSendsNil
    \/ SupDefault
    \/ \E g \in Searchers : DfsLoopExit(g, "finished")
    \/ \E g \in Searchers : DfsLoopCheck(g)
    \/ \E g \in Searchers : DfsPlaceFails(g)
    \/ \E g \in Searchers : DfsPlaceCopies(g)
    \/ \E g \in Searchers : DfsPlaceStores(g)
    \/ \E g \in Searchers : DfsPlaceCompletes(g)
    \/ \E g \in Searchers : DfsSend(g, "finished")
    \/ \E g \in Searchers : AsyncPlaceRecurses(g)

AsyncSpec == AsyncInit /\ [][AsyncNext]_vars

(***************************************************************************)
(* AsyncSplittingSolver                                                    *)
(***************************************************************************)
\* Solve up to its receive: the feeder goroutine (wg.Add(1)), numWorkers
\* workers, the supervisor goroutine.
SplitStart ==
    /\ mainpc = "start"
    /\ feeder' = [feeder EXCEPT !.pc = "next"]
    /\ pc' = [g \in Searchers |-> "request"]
    /\ suppc' = "wait"
    /\ mainpc' = "recv"
    /\ UNCHANGED <<cfg, result, seedIdx, placers, base, top, pending, done,
                   solutions, work, buf, answering, inbox, hist>>

\* A runtime panic (slice bounds out of range) ends the process.
Crash ==
    /\ mainpc' = "crashed"
    /\ pc' = [g \in Searchers |-> "crashed"]
    /\ suppc' = "crashed"
    /\ feeder' = [feeder EXCEPT !.pc = "crashed"]

\* Variant: Send puts the slice it was given on the Response channel (the
\* record at depth d of the sender's placers) instead of wr.Placements.
SendSliceAliased(g, w, d, val) == [store |-> g, depth |-> d, sent |-> val]

\* The slice Send puts on the Response channel of worker w after copying
\* val into w's buffer: wr.Placements, the requester's own storage.
SendSlice(g, w, d, val) == [store |-> w, depth |-> 0, sent |-> val]

\* What the receiver of the slice reads from it now.
ReadInbox(w) ==
    LET in == inbox[w]
    IN  IF in.store = w THEN buf[w]
        ELSE IF in.store = 0 \/ cfg.placer \notin NoAllocKinds THEN in.sent
        ELSE SubSeq(placers[in.store][in.depth].stones, 1, Len(in.sent))

\* The feeder's select takes `case request := <-work`.
FeederTakes ==
    /\ feeder.pc = "next"
    /\ seedIdx =< Len(Seeds)
    /\ work # <<>>
    /\ feeder' = [pc |-> "copy", to |-> Head(work)]
    /\ work' = Tail(work)
    /\ UNCHANGED <<cfg, mainpc, result, seedIdx, pc, placers, base, top,
                   pending, done, solutions, suppc, buf, answering, inbox, hist>>

\* The feeder's select takes `case <-done: return`.
FeederObservesDone ==
    /\ feeder.pc = "next"
    /\ seedIdx =< Len(Seeds)
    /\ done
    /\ feeder' = [feeder EXCEPT !.pc = "finished"]
    /\ UNCHANGED <<cfg, mainpc, result, seedIdx, pc, placers, base, top,
                   pending, done, solutions, suppc, work, buf, answering,
                   inbox, hist>>

\* The range over the starting points ends; the deferred wg.Done() runs.
FeederExhausted ==
    /\ feeder.pc = "next"
    /\ seedIdx > Len(Seeds)
    /\ feeder' = [feeder EXCEPT !.pc = "finished"]
    /\ UNCHANGED <<cfg, mainpc, result, seedIdx, pc, placers, base, top,
                   pending, done, solutions, suppc, work, buf, answering,
                   inbox, hist>>

\* request.Send(sp, done), first half:
\*   wr.Placements = wr.Placements[:len(p)]; copy(wr.Placements, p)
FeederCopies ==
    /\ feeder.pc = "copy"
    /\ IF Len(Seeds[seedIdx]) > cfg.size
       THEN Crash /\ UNCHANGED buf
       ELSE /\ buf' = [buf EXCEPT ![feeder.to] = Seeds[seedIdx]]
            /\ feeder' = [feeder EXCEPT !.pc = "send"]
            /\ UNCHANGED <<mainpc, pc, suppc>>
    /\ UNCHANGED <<cfg, result, seedIdx, placers, base, top, pending, done,
                   solutions, work, answering, inbox, hist>>

\* request.Send(sp, done), second half, `case wr.Response <- wr.Placements`:
\* the channel has no buffer, the send happens when the requester is in its
\* receive.  The requester takes `case p := <-request.Response`.
FeederSends ==
    /\ feeder.pc = "send"
    /\ pc[feeder.to] = "await"
    /\ inbox' = [inbox EXCEPT ![feeder.to] =
                    SendSlice(0, feeder.to, 0, Seeds[seedIdx])]
    /\ pc' = [pc EXCEPT ![feeder.to] = "new"]
    /\ feeder' = [pc |-> "next", to |-> 0]
    /\ seedIdx' = seedIdx + 1
    /\ hist' = [hist EXCEPT !.sendAfterClose = @ \/ done]
    /\ UNCHANGED <<cfg, mainpc, result, placers, base, top, pending, done,
                   solutions, suppc, work, buf, answering>>

\* request.Send(sp, done), second half, `case <-done`.
FeederAbandons ==
    /\ feeder.pc = "send"
    /\ done
    /\ feeder' = [pc |-> "next", to |-> 0]
    /\ seedIdx' = seedIdx + 1
    /\ UNCHANGED <<cfg, mainpc, result, pc, placers, base, top, pending, done,
                   solutions, suppc, work, buf, answering, inbox, hist>>

\* worker: the outer select takes `case work <- &request`; the worker is
\* then in the inner select, waiting on its Response channel.
WorkerRequests(w) ==
    /\ pc[w] = "request"
    /\ Len(work) < cfg.numWorkers
    /\ work' = Append(work, w)
    /\ pc' = [pc EXCEPT ![w] = "await"]
    /\ UNCHANGED <<cfg, mainpc, result, seedIdx, placers, base, top, pending,
                   done, solutions, suppc, feeder, buf, answering, inbox, hist>>

\* worker: either select takes `case <-done: return`.
WorkerObservesDone(w) ==
    /\ pc[w] \in {"request", "await"}
    /\ done
    /\ pc' = [pc EXCEPT ![w] = "finished"]
    /\ UNCHANGED <<cfg, mainpc, result, seedIdx, placers, base, top, pending,
                   done, solutions, suppc, splitVars, hist>>

\* A slice whose storage is the arena worker w is about to drop keeps the
\* content the arena has now: nothing writes the old arena again.
Freeze(sl, w) == IF sl.owner = w THEN ValueSlice(Deref(sl)) ELSE sl

\* worker: sp := s.StonePlacerConstructor.New(g, p); s.dfs(sp, ...)
WorkerNew(w) ==
    /\ pc[w] = "new"
    /\ \E n \in {New(cfg.placer, cfg.size, ReadInbox(w))} :
           /\ placers' = [placers EXCEPT ![w] = n.placers]
           /\ base' = [base EXCEPT ![w] = n.base]
           /\ top' = [top EXCEPT ![w] = n.base]
    /\ solutions' = [k \in DOMAIN solutions |-> Freeze(solutions[k], w)]
    /\ result' = [result EXCEPT !.sol = Freeze(@, w)]
    /\ inbox' = [inbox EXCEPT ![w] = NoInbox]
    /\ pc' = [pc EXCEPT ![w] = "loop"]
    /\ UNCHANGED <<cfg, mainpc, seedIdx, pending, done, suppc, feeder, work,
                   buf, answering, hist>>

\* dfs: sp.Place() succeeds with fewer than Size stones and the select
\* takes its default case: s.dfs(nextState, ...).
SplitPlaceRecurses(g) ==
    /\ pc[g] = "place"
    /\ work = <<>>
    /\ \E r \in {Place(cfg.placer, cfg.size, Cur(g), Nxt(g))} :
           /\ ~r.err
           /\ NumPlaced(cfg.placer, r.np) # cfg.size
           /\ placers' = [placers EXCEPT ![g] = AfterPlace(g, r)]
    /\ top' = [top EXCEPT ![g] = @ + 1]
    /\ pc' = [pc EXCEPT ![g] = "loop"]
    /\ UNCHANGED <<cfg, mainpc, result, seedIdx, base, pending, done,
                   solutions, suppc, splitVars, hist>>

\* Variant: the request answered is read from the work channel and left
\* in it.
SplitPlacePeeks(g) ==
    /\ pc[g] = "place"
    /\ work # <<>>
    /\ \E r \in {Place(cfg.placer, cfg.size, Cur(g), Nxt(g))} :
           /\ ~r.err
           /\ NumPlaced(cfg.placer, r.np) # cfg.size
           /\ placers' = [placers EXCEPT ![g] = AfterPlace(g, r)]
    /\ answering' = [answering EXCEPT ![g] = Head(work)]
    /\ work' = work
    /\ pc' = [pc EXCEPT ![g] = "sendcopy"]
    /\ UNCHANGED <<cfg, mainpc, result, seedIdx, base, top, pending, done,
                   solutions, suppc, feeder, buf, inbox, hist>>

\* dfs: sp.Place() succeeds with fewer than Size stones and the select
\* takes `case request := <-work`.
SplitPlaceSplits(g) ==
    /\ pc[g] = "place"
    /\ work # <<>>
    /\ \E r \in {Place(cfg.placer, cfg.size, Cur(g), Nxt(g))} :
           /\ ~r.err
           /\ NumPlaced(cfg.placer, r.np) # cfg.size
           /\ placers' = [placers EXCEPT ![g] = AfterPlace(g, r)]
    /\ answering' = [answering EXCEPT ![g] = Head(work)]
    /\ work' = Tail(work)
    /\ pc' = [pc EXCEPT ![g] = "sendcopy"]
    /\ UNCHANGED <<cfg, mainpc, result, seedIdx, base, top, pending, done,
                   solutions, suppc, feeder, buf, inbox, hist>>

\* Variant: the placer whose Placements() are handed off is sp itself.
HandedOffReceiver(g) == placers[g][top[g]]

\* The placer whose Placements() dfs hands to the requester: nextState, the
\* child the Place call has just returned.
HandedOff(g) == placers[g][top[g] + 1]

\* request.Send(nextState.Placements(), done), first half:
\*   wr.Placements = wr.Placements[:len(p)]; copy(wr.Placements, p)
SplitSendCopies(g) ==
    /\ pc[g] = "sendcopy"
    /\ \E p \in Placements(cfg.placer, cfg.pointSet, HandedOff(g)) :
          IF Len(p) > cfg.size
          THEN Crash /\ UNCHANGED buf
          ELSE /\ buf' = [buf EXCEPT ![answering[g]] = p]
               /\ pc' = [pc EXCEPT ![g] = "sendsel"]
               /\ UNCHANGED <<mainpc, suppc, feeder>>
    /\ UNCHANGED <<cfg, result, seedIdx, placers, base, top, pending, done,
                   solutions, work, answering, inbox, hist>>

\* The placer object dfs drops when it moves on after a handoff (the
\* allocation-free placers keep their array).
DropChild(g) ==
    IF cfg.placer \in NoAllocKinds THEN placers[g]
    ELSE [placers[g] EXCEPT ![top[g] + 1] = NoPlacer(cfg.placer)]

\* request.Send, second half, `case wr.Response <- wr.Placements`, and
\* the requester's `case p := <-request.Response`.
SplitSendDelivers(g) ==
    /\ pc[g] = "sendsel"
    /\ pc[answering[g]] = "await"
    /\ inbox' = [inbox EXCEPT ![answering[g]] =
                    SendSlice(g, answering[g], top[g] + 1, buf[answering[g]])]
    /\ pc' = [pc EXCEPT ![answering[g]] = "new", ![g] = "loop"]
    /\ answering' = [answering EXCEPT ![g] = 0]
    /\ placers' = [placers EXCEPT ![g] = DropChild(g)]
    /\ hist' = [hist EXCEPT !.sendAfterClose = @ \/ done]
    /\ UNCHANGED <<cfg, mainpc, result, seedIdx, base, top, pending, done,
                   solutions, suppc, feeder, work, buf>>

\* request.Send, second half, `case <-done`.
SplitSendAbandons(g) ==
    /\ pc[g] = "sendsel"
    /\ done
    /\ pc' = [pc EXCEPT ![g] = "loop"]
    /\ answering' = [answering EXCEPT ![g] = 0]
    /\ placers' = [placers EXCEPT ![g] = DropChild(g)]
    /\ UNCHANGED <<cfg, mainpc, result, seedIdx, base, top, pending, done,
                   solutions, suppc, feeder, work, buf, inbox, hist>>

\* Supervisor: wg.Wait() returns when the feeder has run its wg.Done().
SplitSupWait ==
    /\ suppc = "wait"
    /\ feeder.pc = "finished"
    /\ suppc' = "spin"
    /\ UNCHANGED <<cfg, mainpc, result, seedIdx, pc, placers, base, top,
                   pending, done, solutions, splitVars, hist>>

\* Supervisor: `for len(work) != numWorkers` ends.
SplitSupSpinExit ==
    /\ suppc = "spin"
    /\ Len(work) = cfg.numWorkers
    /\ suppc' = "select"
    /\ UNCHANGED <<cfg, mainpc, result, seedIdx, pc, placers, base, top,
                   pending, done, solutions, splitVars, hist>>

\* Supervisor: the select in the loop takes `case <-done: return`.
SplitSupSpinDone ==
    /\ suppc = "spin"
    /\ Len(work) # cfg.numWorkers
    /\ done
    /\ suppc' = "finished"
    /\ UNCHANGED <<cfg, mainpc, result, seedIdx, pc, placers, base, top,
                   pending, done, solutions, splitVars, hist>>

SplitInit ==
    \E c \in ParConfigs("split", 1 .. MaxWorkers) :
        InitRun(c, 1 .. c.numWorkers)

SplitNext ==
    \/ SplitStart
    \/ MainRecv
    \/ MainClose
    \/ FeederTakes
    \/ FeederObservesDone
    \/ FeederExhausted
    \/ FeederCopies
    \/ FeederSends
    \/ FeederAbandons
    \/ SplitSupWait
    \/ SplitSupSpinExit
    \/ SplitSupSpinDone
    \/ SupObservesDone
    \/ SupSendsNil
    \/ SupDefault
    \/ \E g \in Searchers : WorkerRequests(g)
    \/ \E g \in Searchers : WorkerObservesDone(g)
    \/ \E g \in Searchers : WorkerNew(g)
    \/ \E g \in Searchers : DfsLoopExit(g, "request")
    \/ \E g \in Searchers : DfsLoopCheck(g)
    \/ \E g \in Searchers : DfsPlaceFails(g)
    \/ \E g \in Searchers : DfsPlaceCopies(g)
    \/ \E g \in Searchers : DfsPlaceStores(g)
    \/ \E g \in Searchers : DfsPlaceCompletes(g)
    \/ \E g \in Searchers : DfsSend(g, "request")
    \/ \E g \in Searchers : SplitPlaceRecurses(g)
    \/ \E g \in Searchers : SplitPlaceSplits(g)
    \/ \E g \in Searchers : SplitSendCopies(g)
    \/ \E g \in Searchers : SplitSendDelivers(g)
    \/ \E g \in Searchers : SplitSendAbandons(g)

SplitSpec == SplitInit /\ [][SplitNext]_vars

(***************************************************************************)
(* Claims                                                                  *)
(***************************************************************************)
StandardProviders == {"empty", "octant"}

\* Solve has returned a nil error.
ReturnedSolution == mainpc = "returned" /\ ~result.err

\* C1: whenever Solve returns a nil error (any solver, any placer, either
\* standard starting-point provider), the Placements it returned passes
\* CheckValidSolution: Size points, all in bounds, all pairwise squared
\* separations distinct and non-zero.
C1_ReturnedPlacementsValid ==
    (ReturnedSolution /\ cfg.provider \in StandardProviders)
        => CheckValidSolution(cfg.size, Deref(result.sol))

\* The grid of side g has a valid placement of g stones.
SolutionExists(g) ==
    \E ps \in SUBSET GridPoints(g) :
        Cardinality(ps) = g /\ CheckValidSolution(g, SortedElements(ps))

\* C2: on a grid side for which a valid placement exists, a solver run
\* with SingleOctantStartingPoints returns a Placements that passes the
\* validator, never the no-solution error.
C2_OctantRunFindsSolution ==
    (mainpc = "returned" /\ cfg.provider = "octant" /\ SolutionExists(cfg.size))
        => ~result.err /\ CheckValidSolution(cfg.size, Deref(result.sol))

\* The step in which the supervisor's select takes `case solutions <- nil`.
NilSendStep ==
    /\ suppc = "select"
    /\ suppc' = "finished"
    /\ solutions' = Append(solutions, NilSlice)

\* The feeder has delivered every starting point, every worker is parked in
\* its inner select with its request in the work queue, and no hand-off is
\* in flight.
AllParked ==
    /\ feeder.pc = "finished" /\ seedIdx > Len(Seeds)
    /\ \A w \in Searchers :
          /\ pc[w] = "await"
          /\ \E k \in DOMAIN work : work[k] = w
          /\ answering[w] = 0
          /\ inbox[w] = NoInbox

\* C3 as stated: in AsyncSplittingSolver.Solve the supervisor sends the
\* no-solution nil only in a state where the feeder has delivered all
\* starting points and every worker is parked with its request in the work
\* queue.
C3_NilOnlyWhenAllParked == [][NilSendStep => AllParked]_vars

\* C3 amended: a nil the supervisor sends while done is not closed (the only
\* nil Solve can receive before it returns) is sent in such a state.
C3_NilBeforeCloseOnlyWhenAllParked ==
    [][(NilSendStep /\ ~done) => AllParked]_vars

\* The supervisor has sent its nil before done was closed.
C3_NilSentBeforeClose ==
    /\ cfg.solver = "split"
    /\ suppc = "finished" /\ ~done
    /\ solutions = <<NilSlice>>

\* AsyncSolver.Solve under the scheduling Go guarantees to a goroutine that
\* can run: Solve's own receive and close happen once they are possible.
FairAsyncSpec ==
    AsyncInit /\ [][AsyncNext]_vars /\ WF_vars(MainRecv) /\ WF_vars(MainClose)

\* The supervisor is past wg.Wait() only when every search goroutine has
\* returned; its select never blocks; a Solve that has received a value
\* after some search sent a solution has received a solution.
AsyncNilDiscipline ==
    /\ suppc \in {"select", "finished"} => \A g \in Searchers : pc[g] = "finished"
    /\ suppc = "select" => ENABLED (SupObservesDone \/ SupSendsNil \/ SupDefault)
    /\ (hist.solSent /\ mainpc \in {"close", "returned"}) => ~result.err

\* C4: in AsyncSolver.Solve, if a search goroutine sends a solution then
\* Solve returns a solution: the supervisor's nil is sent only after every
\* search goroutine has returned, without blocking, and is never the first
\* value Solve receives when some search sent a solution.
C4_SolutionSentIsReturned ==
    /\ []AsyncNilDiscipline
    /\ hist.solSent ~> ReturnedSolution

\* A search sent a solution, Solve returned it and the supervisor is done.
C4_SolutionReturnedSupervisorDone ==
    /\ cfg.solver = "async"
    /\ hist.solSent /\ ReturnedSolution
    /\ suppc = "finished"

\* The steps of each goroutine of AsyncSplittingSolver.Solve.
SplitMainNext == SplitStart \/ MainRecv \/ MainClose

FeederNext ==
    \/ FeederTakes \/ FeederObservesDone \/ FeederExhausted
    \/ FeederCopies \/ FeederSends \/ FeederAbandons

SplitSupNext ==
    \/ SplitSupWait \/ SplitSupSpinExit \/ SplitSupSpinDone
    \/ SupObservesDone \/ SupSendsNil \/ SupDefault

WorkerNext(w) ==
    /\ w \in Searchers
    /\ \/ WorkerRequests(w) \/ WorkerObservesDone(w) \/ WorkerNew(w)
       \/ DfsLoopExit(w, "request") \/ DfsLoopCheck(w) \/ DfsPlaceFails(w)
       \/ DfsPlaceCopies(w) \/ DfsPlaceStores(w) \/ DfsPlaceCompletes(w)
       \/ DfsSend(w, "request") \/ SplitPlaceRecurses(w) \/ SplitPlaceSplits(w)
       \/ SplitSendCopies(w) \/ SplitSendDelivers(w) \/ SplitSendAbandons(w)

\* AsyncSplittingSolver.Solve under fair scheduling: a goroutine that can
\* take a step eventually takes one.
FairSplitSpec ==
    /\ SplitInit /\ [][SplitNext]_vars
    /\ WF_vars(SplitMainNext) /\ WF_vars(FeederNext) /\ WF_vars(SplitSupNext)
    /\ \A w \in 1 .. MaxWorkers : WF_vars(WorkerNext(w))

\* What each goroutine of AsyncSplittingSolver.Solve needs to get on (the
\* supervisor in its loop gets on when the loop can end).
SplitMainCanStep ==
    mainpc \in {"start", "close"} \/ (mainpc = "recv" /\ solutions # <<>>)

FeederCanStep ==
    \/ feeder.pc = "next" /\ (seedIdx > Len(Seeds) \/ work # <<>> \/ done)
    \/ feeder.pc = "copy"
    \/ feeder.pc = "send" /\ (pc[feeder.to] = "await" \/ done)

SplitSupCanStep ==
    \/ suppc = "wait" /\ feeder.pc = "finished"
    \/ suppc = "spin" /\ (Len(work) = cfg.numWorkers \/ done)
    \/ suppc = "select"

WorkerCanStep(w) ==
    \/ pc[w] \in {"new", "loop", "place", "store", "sendcopy"}
    \/ pc[w] = "request" /\ (Len(work) < cfg.numWorkers \/ done)
    \/ pc[w] = "await" /\ done
    \/ pc[w] = "send" /\ Len(solutions) < 1
    \/ pc[w] = "sendsel" /\ (pc[answering[w]] = "await" \/ done)

\* C5, safety: in no reachable state has Solve not returned while no
\* goroutine of the call (Solve itself, feeder, supervisor, workers) can
\* get on: they are all blocked, finished, or gone with the process.
C5_NoStuckState ==
    mainpc # "returned" =>
        \/ SplitMainCanStep \/ FeederCanStep \/ SplitSupCanStep
        \/ \E w \in Searchers : WorkerCanStep(w)

\* A worker has taken a request and is in Send.
C5_WorkerInSend == \E g \in Searchers : pc[g] = "sendsel" /\ answering[g] # 0

\* C6: after Solve of a parallel solver has returned, no goroutine it
\* started remains blocked forever on a send to the solutions channel.
\* Solve receives once; after its return a goroutine in `solution <- ...`
\* with the channel's slot taken can never complete the send.
C6_NoSendBlockedAfterReturn ==
    mainpc = "returned" =>
        \A g \in Searchers : ~(pc[g] = "send" /\ Len(solutions) = 1)

(***************************************************************************)
(* The three solvers side by side                                          *)
(***************************************************************************)
\* The configurations of a parallel solver on which every search is short:
\* the largest grid only with the starting points of the last row.
ShortConfigs(solver, workers) ==
    {c \in ParConfigs(solver, workers) :
        c.size = MaxParSize => c.provider = "lastRow"}

SolveInit ==
    \/ SeqInit
    \/ \E c \in ShortConfigs("async", {1}) :
          InitRun(c, 1 .. Len(StartingPoints(c.provider, c.size)))
    \/ \E c \in ShortConfigs("split", 1 .. MaxWorkers) :
          InitRun(c, 1 .. c.numWorkers)

SolveNext ==
    \/ cfg.solver = "single" /\ SeqNext
    \/ cfg.solver = "async" /\ AsyncNext
    \/ cfg.solver = "split" /\ SplitNext

\* Solve of any of the three solvers, where the program keeps running as
\* long as some goroutine can run.
FairSolveSpec == SolveInit /\ [][SolveNext]_vars /\ WF_vars(SolveNext)

\* The complete valid placements the search of placer `kind` can reach from
\* the starting placement seed: they hold the seed's stones, and with an
\* ordered placer every other stone comes after the seed's stones.
Completions(kind, g, seed) ==
    {ps \in SUBSET GridPoints(g) :
        /\ Cardinality(ps) = g
        /\ NewPointSet(seed) \subseteq ps
        /\ CheckValidSolution(g, SortedElements(ps))
        /\ kind # "unordered" =>
              \A q \in ps \ NewPointSet(seed) :
                 \A k \in DOMAIN seed : LessThan(seed[k], q)}

NoSolutionReachable ==
    \A k \in DOMAIN Seeds : Completions(cfg.placer, cfg.size, Seeds[k]) = {}

\* C7: when no complete valid placement is reachable from any starting
\* placement, every solver terminates and returns the no-solutions error,
\* never a placement.
C7_ExhaustionReturnsNoSolutions ==
    /\ NoSolutionReachable => <>(mainpc = "returned")
    /\ []((NoSolutionReachable /\ mainpc = "returned") => result.err)

\* The work-splitting solver with two workers has exhausted a search space
\* without solution and returned the error.
C7_SplitExhausted ==
    /\ NoSolutionReachable
    /\ cfg.solver = "split" /\ cfg.numWorkers = 2
    /\ mainpc = "returned" /\ result.err

\* The goroutines that hold the work request of worker w between taking it
\* from the work channel and the end of their Send: they write w's buffer.
\* 0 is the feeder.
RequestHolders(w) ==
    {g \in Searchers : answering[g] = w /\ pc[g] \in {"sendcopy", "sendsel"}}
        \cup {z \in {0} : feeder.to = w /\ feeder.pc \in {"copy", "send"}}

\* C8: a hand-off reaches the requester in the requester's own buffer: the
\* slice a worker received on its Response channel is its own storage and
\* still reads as the placements that were sent, whatever the sender has
\* placed since; and the buffer of a worker has at most one writer at a
\* time, only while its owner waits for the response (or has returned)
\* and its request is no longer in the work channel.
C8_HandoffCopiedToRequester ==
    \A w \in Searchers :
        /\ pc[w] = "new" =>
              /\ inbox[w].store = w
              /\ ReadInbox(w) = inbox[w].sent
              /\ RequestHolders(w) = {}
        /\ RequestHolders(w) # {} =>
              /\ Cardinality(RequestHolders(w)) = 1
              /\ pc[w] \in {"await", "finished", "crashed"}
              /\ \A k \in DOMAIN work : work[k] # w

\* C8 witness: a worker holds placements another worker handed to it (the
\* feeder hands out the empty starting point only) and the sender's arena
\* record at that depth has been overwritten since.
C8_SenderPlacedAfterHandoff ==
    /\ cfg.provider = "empty"
    /\ cfg.placer \in NoAllocKinds
    /\ \E w \in Searchers :
          /\ pc[w] = "new"
          /\ inbox[w].sent # <<>>
          /\ ReadInbox(w) = inbox[w].sent
          /\ \E g \in Searchers \ {w} :
                /\ pc[g] \in {"loop", "check", "place"}
                /\ placers[g][Len(inbox[w].sent)].stones # inbox[w].sent

\* C9: once the done channel is closed, no goroutine completes a send on
\* the solutions channel or on a Response channel.
C9_NoSendAfterClose == ~hist.sendAfterClose

\* C9 witness: a send on the solutions channel has completed after done was
\* closed, and what it sent is still in the channel.
C9_SearchSendsAfterClose ==
    /\ done
    /\ hist.sendAfterClose
    /\ \E g \in Searchers : pc[g] \in {"finished", "loop", "check", "place"}
    /\ solutions # <<>>

\* Row-major lexicographic order on placements of the same length.
LexLess(a, b) ==
    \E i \in DOMAIN a :
        /\ \A j \in 1 .. (i - 1) : a[j] = b[j]
        /\ LessThan(a[i], b[i])

\* The complete placement a depth-first search in row-major cursor order
\* meets first: that of the first starting placement that has one, and
\* among its complete placements the least one.
FirstSolution ==
    LET k == CHOOSE i \in DOMAIN Seeds :
                 /\ Completions(cfg.placer, cfg.size, Seeds[i]) # {}
                 /\ \A j \in 1 .. (i - 1) :
                        Completions(cfg.placer, cfg.size, Seeds[j]) = {}
        S == {SortedElements(ps) :
                 ps \in Completions(cfg.placer, cfg.size, Seeds[k])}
    IN  CHOOSE s \in S : \A t \in S : s = t \/ LexLess(s, t)

SeqReturned == cfg.solver = "single" /\ mainpc = "returned"

\* C10 (as stated): a run of SingleThreadedSolver that returns placements
\* returns one sequence fixed by grid, provider and placer, the first
\* complete placement of the depth-first search.
C10_SequentialResultIdentical ==
    (SeqReturned /\ ~result.err) => Deref(result.sol) = FirstSolution

\* C10 (amended): the run returns the points of the first complete placement
\* of the depth-first search, and an error only when no starting placement
\* has one; the order of the returned sequence is fixed too unless the
\* placer is the unordered one over the map-based point set.
C10_SequentialResultDetermined ==
    SeqReturned =>
        /\ result.err <=> NoSolutionReachable
        /\ ~result.err =>
              /\ NewPointSet(Deref(result.sol)) = NewPointSet(FirstSolution)
              /\ Len(Deref(result.sol)) = cfg.size
              /\ cfg.pointSet # "map" => Deref(result.sol) = FirstSolution

\* C10 witness: the unordered placer over the map-based point set returned
\* the points of the first solution in another order.
C10_SamePointsOtherOrder ==
    /\ SeqReturned /\ ~result.err
    /\ cfg.placer = "unordered" /\ cfg.pointSet = "map"
    /\ NewPointSet(Deref(result.sol)) = NewPointSet(FirstSolution)
    /\ Deref(result.sol) # FirstSolution

(***************************************************************************)
(* package placer on its own: a constructor call on a given seed, then     *)
(* the Place calls and returns of a depth-first walk that does not stop at *)
(* complete placements.                                                    *)
(***************************************************************************)
MaxSeedLen == 3

\* The sequences of at most n points of the grid (repetitions allowed).
SeedsUpTo(g, n) ==
    UNION {[1 .. k -> GridPoints(g)] : k \in 0 .. n}

PlacerConfigs ==
    {c \in [solver : {"placer"}, size : 1 .. MaxSeqSize, placer : PlacerKinds,
            provider : {"given"}, pointSet : {"array"}, numWorkers : {1},
            seed : SeedsUpTo(MaxSeqSize, MaxSeedLen)] :
        /\ Len(c.seed) =< c.size
        /\ \A k \in DOMAIN c.seed : IsInBounds(c.size, c.seed[k])}

\* The last call on the placer: the operation, whether it returned the
\* distance-constraint error or panicked, and the receiver before the call.
NoCall(kind) ==
    [op |-> "none", err |-> FALSE, panic |-> FALSE, before |-> NoPlacer(kind)]

\* The state before New is called on the seed of configuration c.
PlacerInitWith(c) ==
        /\ cfg = c
        /\ mainpc = "start"
        /\ result = [err |-> FALSE, sol |-> NilSlice]
        /\ seedIdx = 1
        /\ pc = [g \in {1} |-> "idle"]
        /\ placers = [g \in {1} |-> [d \in Depths(c.size) |-> NoPlacer(c.placer)]]
        /\ base = [g \in {1} |-> 0]
        /\ top = [g \in {1} |-> 0]
        /\ pending = [g \in {1} |-> NilSlice]
        /\ done = FALSE
        /\ solutions = <<>>
        /\ suppc = "idle"
        /\ feeder = [pc |-> "idle", to |-> 0]
        /\ work = <<>>
        /\ buf = [g \in {1} |-> <<>>]
        /\ answering = [g \in {1} |-> 0]
        /\ inbox = [g \in {1} |-> NoInbox]
        /\ hist = NoCall(c.placer)

PlacerInit == \E c \in PlacerConfigs : PlacerInitWith(c)

\* StonePlacerConstructor.New(g, seed) returns a placer.
PlacerNew ==
    /\ mainpc = "start"
    /\ \E n \in {New(cfg.placer, cfg.size, cfg.seed)} :
           /\ ~n.panic
           /\ placers' = [placers EXCEPT ![1] = n.placers]
           /\ base' = [base EXCEPT ![1] = n.base]
           /\ top' = [top EXCEPT ![1] = n.base]
    /\ mainpc' = "ready"
    /\ hist' = [NoCall(cfg.placer) EXCEPT !.op = "new"]
    /\ UNCHANGED <<cfg, result, seedIdx, pc, pending, done, solutions, suppc,
                   splitVars>>

\* StonePlacerConstructor.New(g, seed) panics.
PlacerNewPanics ==
    /\ mainpc = "start"
    /\ New(cfg.placer, cfg.size, cfg.seed).panic
    /\ mainpc' = "panicked"
    /\ hist' = [NoCall(cfg.placer) EXCEPT !.op = "new", !.panic = TRUE]
    /\ UNCHANGED <<cfg, result, seedIdx, pc, placers, base, top, pending, done,
                   solutions, suppc, splitVars>>

\* sp.Place() on the current placer (not done, not complete) returns the
\* distance-constraint error: the walk stays on the same placer.
PlacerPlaceFails ==
    /\ mainpc = "ready"
    /\ ~Done(cfg.size, Cur(1))
    /\ NumPlaced(cfg.placer, Cur(1)) < cfg.size
    /\ \E r \in {Place(cfg.placer, cfg.size, Cur(1), Nxt(1))} :
           /\ r.err
           /\ placers' = [placers EXCEPT ![1] = AfterPlace(1, r)]
    /\ hist' = [op |-> "place", err |-> TRUE, panic |-> FALSE, before |-> Cur(1)]
    /\ UNCHANGED <<cfg, mainpc, result, seedIdx, pc, base, top, pending, done,
                   solutions, suppc, splitVars>>

\* sp.Place() succeeds: the walk goes on with the placer it returned.
PlacerPlaceSucceeds ==
    /\ mainpc = "ready"
    /\ ~Done(cfg.size, Cur(1))
    /\ NumPlaced(cfg.placer, Cur(1)) < cfg.size
    /\ \E r \in {Place(cfg.placer, cfg.size, Cur(1), Nxt(1))} :
           /\ ~r.err
           /\ placers' = [placers EXCEPT ![1] = AfterPlace(1, r)]
    /\ top' = [top EXCEPT ![1] = @ + 1]
    /\ hist' = [op |-> "place", err |-> FALSE, panic |-> FALSE, before |-> Cur(1)]
    /\ UNCHANGED <<cfg, mainpc, result, seedIdx, pc, base, pending, done,
                   solutions, suppc, splitVars>>

\* The walk goes back to the placer whose Place returned the current one.
PlacerReturn ==
    /\ mainpc = "ready"
    /\ top[1] > base[1]
    /\ top' = [top EXCEPT ![1] = @ - 1]
    /\ placers' = [placers EXCEPT
          ![1] = IF cfg.placer \in NoAllocKinds THEN @
                 ELSE [@ EXCEPT ![top[1]] = NoPlacer(cfg.placer)]]
    /\ hist' = [NoCall(cfg.placer) EXCEPT !.op = "return"]
    /\ UNCHANGED <<cfg, mainpc, result, seedIdx, pc, base, pending, done,
                   solutions, suppc, splitVars>>

PlacerNext ==
    \/ PlacerNew
    \/ PlacerNewPanics
    \/ PlacerPlaceFails
    \/ PlacerPlaceSucceeds
    \/ PlacerReturn

PlacerSpec == PlacerInit /\ [][PlacerNext]_vars

\* The stones of a placer as a sequence (row-major for the unordered one).
StoneSeq(kind, sp) ==
    IF kind = "unordered" THEN SortedElements(sp.stones) ELSE sp.stones

\* The cell a Place call on sp tries: the cursor, for the unordered placer
\* moved on first when it is on a stone.
TriedCell(kind, g, sp) ==
    IF kind = "unordered" /\ sp.nextStone \in sp.stones
    THEN UnorderedAdvance(g, sp.stones, sp.nextStone)
    ELSE sp.nextStone

\* A separation from the cell to a stone of sp is already in sp's set.
SeparationInUse(kind, sp, cell) ==
    \E i \in DOMAIN StoneSeq(kind, sp) :
        Separation(cell, StoneSeq(kind, sp)[i]) \in sp.separations

\* Two stones of sp are at the same separation from the cell.
SeparationRepeated(kind, sp, cell) ==
    \E i, j \in DOMAIN StoneSeq(kind, sp) :
        /\ i < j
        /\ Separation(cell, StoneSeq(kind, sp)[i])
              = Separation(cell, StoneSeq(kind, sp)[j])

\* C11: a Place call returns the distance-constraint error exactly when a
\* separation from the tried cell to a placed stone is in use (in the set
\* or repeated among the stones), and then the receiver has the stones and
\* the separations it had before the call and another cursor.
C11_FailedPlaceKeepsReceiver ==
    hist.op = "place" =>
        LET cell == TriedCell(cfg.placer, cfg.size, hist.before)
        IN  /\ hist.err <=> \/ SeparationInUse(cfg.placer, hist.before, cell)
                            \/ SeparationRepeated(cfg.placer, hist.before, cell)
            /\ hist.err =>
                  /\ Cur(1).stones = hist.before.stones
                  /\ Cur(1).separations = hist.before.separations
                  /\ Cur(1).nextStone # hist.before.nextStone

\* C11 witness: a Place failed on a separation repeated among those just
\* added for the cell, after it had added one to the next placer's set.
C11_FailedOnRepeatedSeparation ==
    /\ hist.op = "place" /\ hist.err
    /\ cfg.placer \in NoAllocKinds
    /\ ~SeparationInUse(cfg.placer, hist.before,
                        TriedCell(cfg.placer, cfg.size, hist.before))
    /\ Nxt(1).separations # hist.before.separations

\* A seed a StartingPointsProvider may hand to New: stones on distinct
\* cells of the grid, no two pairs of them at the same separation.
ValidSeed(g, p) ==
    /\ \A i \in DOMAIN p : IsInBounds(g, p[i])
    /\ \A i, j \in DOMAIN p : i < j => p[i] # p[j]
    /\ \A i, j, k, l \in DOMAIN p :
          (i < j /\ k < l /\ <<i, j>> # <<k, l>>)
              => Separation(p[i], p[j]) # Separation(p[k], p[l])

\* The squared distances between the stones of a sequence.
PairSeparations(s) ==
    {Separation(s[i], s[j]) : i, j \in DOMAIN s} \ {0}

\* C12: the placer New returned for a valid seed, and every placer a
\* successful Place returned after it, holds as separations exactly the
\* squared distances between its stones, all different: k stones give
\* k(k-1)/2 separations.
C12_SeparationsArePairwiseDistances ==
    (mainpc = "ready" /\ ValidSeed(cfg.size, cfg.seed)) =>
        LET s == StoneSeq(cfg.placer, Cur(1))
        IN  /\ Cur(1).separations = PairSeparations(s)
            /\ 2 * Cardinality(Cur(1).separations) = Len(s) * (Len(s) - 1)

\* C12 witness: a placer with three stones, two from a valid seed (their
\* separation computed by New) and one from a successful Place.
C12_SeedThenPlaced ==
    /\ mainpc = "ready" /\ ValidSeed(cfg.size, cfg.seed)
    /\ Len(cfg.seed) = 2
    /\ hist.op = "place" /\ ~hist.err
    /\ NumPlaced(cfg.placer, Cur(1)) = 3
    /\ Cardinality(Cur(1).separations) = 3

\* The stones of a sequence are strictly increasing in row-major order.
StrictlyIncreasing(s) ==
    \A i \in 1 .. (Len(s) - 1) : LessThan(s[i], s[i + 1])

OrderedKinds == PlacerKinds \ {"unordered"}

\* C13: every state of an ordered placer has its stones in strictly
\* increasing row-major order and its cursor after the last stone.
C13_OrderedPlacementsIncreasing ==
    (mainpc = "ready" /\ cfg.placer \in OrderedKinds) =>
        /\ StrictlyIncreasing(Cur(1).stones)
        /\ Cur(1).stones # <<>> =>
              LessThan(Cur(1).stones[Len(Cur(1).stones)], Cur(1).nextStone)

\* C13 for the valid seeds that are themselves strictly increasing.
C13_IncreasingFromIncreasingSeed ==
    (StrictlyIncreasing(cfg.seed) /\ ValidSeed(cfg.size, cfg.seed))
        => C13_OrderedPlacementsIncreasing

\* C13 witness: New of an allocation-free placer has placed one cell of the
\* seed twice and returned a placer.
C13_SameCellPlacedTwice ==
    /\ mainpc = "ready" /\ cfg.placer \in NoAllocKinds
    /\ hist.op = "new"
    /\ Len(Cur(1).stones) = 2
    /\ Cur(1).stones[1] = Cur(1).stones[2]

\* C14: started from the empty placement, SingleThreadedSolver returns a
\* placement exactly when the grid has a solution, with the unordered placer
\* as with every ordered one, and what it returns is a solution: the
\* ordered placers find one if and only if the unordered placer does.
C14_OrderedFindsIffUnorderedFinds ==
    (SeqReturned /\ cfg.provider = "empty") =>
        /\ ~result.err <=> SolutionExists(cfg.size)
        /\ ~result.err => CheckValidSolution(cfg.size, Deref(result.sol))

\* C14 witness: the unordered placer has found a solution of the largest
\* grid from the empty placement (the ordered placers find one too).
C14_UnorderedFoundFromEmpty ==
    /\ SeqReturned /\ cfg.provider = "empty"
    /\ cfg.placer = "unordered" /\ cfg.size = MaxSeqSize
    /\ ~result.err
    /\ CheckValidSolution(cfg.size, Deref(result.sol))

\* The eight rotations and reflections of the grid of side g.
Symmetries(g) ==
    {[p \in GridPoints(g) |->
         LET r == IF f[1] THEN g - 1 - p.Row ELSE p.Row
             c == IF f[2] THEN g - 1 - p.Col ELSE p.Col
         IN  IF f[3] THEN Point(c, r) ELSE Point(r, c)] :
       f \in [1 .. 3 -> BOOLEAN]}

\* The valid placements of g stones on the grid of side g, as sets.
ValidSolutions(g) ==
    {ps \in SUBSET GridPoints(g) :
        Cardinality(ps) = g /\ CheckValidSolution(g, SortedElements(ps))}

\* Every solution has a rotation or reflection whose row-major first stone
\* is one of the seeds of SingleOctantStartingPoints.
OctantCoversSolutions(g) ==
    \A ps \in ValidSolutions(g) :
        \E m \in Symmetries(g) :
            \E k \in DOMAIN SingleOctantStartingPoints(g) :
                SingleOctantStartingPoints(g)[k]
                    = <<SortedElements({m[p] : p \in ps})[1]>>

\* C15: with an ordered placer, SingleThreadedSolver returns a placement
\* from the SingleOctantStartingPoints seeds exactly when the grid has a
\* solution, as it does from EmptyStartingPoint, and the placement is a
\* solution; every solution has a symmetric image that starts in the octant.
C15_OctantFindsIffEmptyFinds ==
    (SeqReturned /\ cfg.placer \in OrderedKinds
                 /\ cfg.provider \in StandardProviders) =>
        /\ ~result.err <=> SolutionExists(cfg.size)
        /\ ~result.err => CheckValidSolution(cfg.size, Deref(result.sol))
        /\ OctantCoversSolutions(cfg.size)

\* C15 witness: an ordered placer found, from the octant seeds of the
\* largest grid, a solution whose first stone is the seed.
C15_FoundFromOctantSeed ==
    /\ SeqReturned /\ cfg.placer \in OrderedKinds
    /\ cfg.provider = "octant" /\ cfg.size = MaxSeqSize
    /\ ~result.err
    /\ <<Deref(result.sol)[1]>> = Seeds[seedIdx]
    /\ CheckValidSolution(cfg.size, Deref(result.sol))

(***************************************************************************)
(* SingleOctantStartingPoints, loop by loop, for every grid size of the    *)
(* package: hist holds the uint8 counters i and j and the slice built.     *)
(***************************************************************************)
MaxGridSize == 14

\* The variables a call of SingleOctantStartingPoints does not touch.
callFrame ==
    <<cfg, result, seedIdx, pc, placers, base, top, pending, done, solutions,
      suppc, splitVars>>

OctantInit ==
    \E n \in 0 .. MaxGridSize :
        /\ cfg = [solver |-> "octant", size |-> n]
        /\ mainpc = "outer"
        /\ hist = [i |-> 0, j |-> 0, startingPoints |-> <<>>]
        /\ result = [err |-> FALSE, sol |-> NilSlice]
        /\ seedIdx = 1
        /\ pc = <<>> /\ placers = <<>> /\ base = <<>> /\ top = <<>>
        /\ pending = <<>> /\ buf = <<>> /\ answering = <<>> /\ inbox = <<>>
        /\ done = FALSE
        /\ solutions = <<>>
        /\ suppc = "idle"
        /\ feeder = [pc |-> "idle", to |-> 0]
        /\ work = <<>>

\* Variant: the inner loop starts at column 0.
OctantOuterEnterFromZero ==
    /\ mainpc = "outer"
    /\ (hist.i * 2) % 256 < cfg.size
    /\ hist' = [hist EXCEPT !.j = 0]
    /\ mainpc' = "inner"
    /\ UNCHANGED callFrame

\* `for i := uint8(0); i*2 < g.Size; i++ {`: the test holds, `j := i`.
OctantOuterEnter ==
    /\ mainpc = "outer"
    /\ (hist.i * 2) % 256 < cfg.size
    /\ hist' = [hist EXCEPT !.j = hist.i]
    /\ mainpc' = "inner"
    /\ UNCHANGED callFrame

\* The test of the outer loop fails: return startingPoints.
OctantOuterExit ==
    /\ mainpc = "outer"
    /\ (hist.i * 2) % 256 >= cfg.size
    /\ mainpc' = "returned"
    /\ UNCHANGED <<callFrame, hist>>

\* `for j := i; j*2 < g.Size; j++ {`: the test holds, append, j++.
OctantInnerAppend ==
    /\ mainpc = "inner"
    /\ (hist.j * 2) % 256 < cfg.size
    /\ hist' = [hist EXCEPT
                   !.startingPoints = Append(@, <<Point(hist.i, hist.j)>>),
                   !.j = (@ + 1) % 256]
    /\ UNCHANGED <<callFrame, mainpc>>

\* The test of the inner loop fails: i++.
OctantInnerExit ==
    /\ mainpc = "inner"
    /\ (hist.j * 2) % 256 >= cfg.size
    /\ hist' = [hist EXCEPT !.i = (@ + 1) % 256]
    /\ mainpc' = "outer"
    /\ UNCHANGED callFrame

OctantNext ==
    \/ OctantOuterEnter
    \/ OctantOuterExit
    \/ OctantInnerAppend
    \/ OctantInnerExit

FairOctantSpec == OctantInit /\ [][OctantNext]_vars /\ WF_vars(OctantNext)

\* The cells (i, j) with i <= j and 2*j < g, one placement of one stone
\* for each, in row-major order.
OctantCells(g) ==
    {p \in GridPoints(g) : p.Row =< p.Col /\ 2 * p.Col < g}

ExpectedOctantSeeds(g) ==
    [k \in 1 .. Cardinality(OctantCells(g)) |->
        <<SortedElements(OctantCells(g))[k]>>]

\* C16: for every size from 0 to MaxGridSize the call returns, and returns
\* exactly the single-stone placements of the cells (i, j) with i <= j and
\* 2*j < Size, once each, in row-major order: 3 for size 4, 6 for size 5.
C16_OctantSeedsExactAndTerminates ==
    /\ <>(mainpc = "returned")
    /\ [](mainpc = "returned" =>
            /\ hist.startingPoints = ExpectedOctantSeeds(cfg.size)
            /\ hist.startingPoints = SingleOctantStartingPoints(cfg.size)
            /\ cfg.size = 4 => Len(hist.startingPoints) = 3
            /\ cfg.size = 5 => Len(hist.startingPoints) = 6)

\* C16 witness: the call for the largest grid has returned its 28 seeds.
C16_ReturnedForMaxGridSize ==
    /\ mainpc = "returned" /\ cfg.size = MaxGridSize
    /\ Len(hist.startingPoints) = 28
    /\ hist.startingPoints[28] = <<Point(6, 6)>>

\* C17: a constructor call on a seed that is not valid panics: it never
\* returns a placer.
C17_InvalidSeedPanics ==
    (mainpc # "start" /\ ~ValidSeed(cfg.size, cfg.seed)) => mainpc = "panicked"

\* C17 witness: New returned a placer for a seed with two stones on one
\* cell or two pairs of stones at one separation.
C17_PlacerFromInvalidSeed ==
    /\ hist.op = "new" /\ mainpc = "ready"
    /\ ~ValidSeed(cfg.size, cfg.seed)
    /\ Len(cfg.seed) = 3

(***************************************************************************)
(* package pruner: the precomputed pruner next to the runtime pruner       *)
(***************************************************************************)
MaxPrunerSize == 3

\* p.isoceles[p1.Row][p1.Col][p2.Row][p2.Col] after NewPrecomputedPruner:
\* filled by rp.PruneIsoceles for every pair of different grid points, the
\* zero value (empty) otherwise.
PrecomputedIsoceles(g, p1, p2) ==
    IF p1 # p2 /\ IsInBounds(g, p1) /\ IsInBounds(g, p2)
    THEN PruneIsoceles(g, {}, p1, p2)
    ELSE {}

\* p.circles[p1.Row][p1.Col][sep] after NewPrecomputedPruner: filled by
\* rp.PruneCircles once for every other grid point at that separation.
PrecomputedCircles(g, p1, sep) ==
    UNION {PruneCircles(g, {}, p1, sep) :
              p2 \in {q \in GridPoints(g) \ {p1} : Separation(p1, q) = sep}}

\* precomputedPruner.PruneIsoceles / PruneCircles: ps.Union(entry).
PrecomputedPruneIsoceles(g, ps, p1, p2) == ps \cup PrecomputedIsoceles(g, p1, p2)

PrecomputedPruneCircles(g, ps, p1, sep) == ps \cup PrecomputedCircles(g, p1, sep)

\* Variant: the loop ends at the first point it adds.
RECURSIVE RuntimePruneCirclesFirstOnly(_, _, _, _, _)
RuntimePruneCirclesFirstOnly(g, ps, p1, sep, p2) ==
    IF ~IsInBounds(g, p2) THEN ps
    ELSE IF Separation(p1, p2) = sep THEN ps \cup {p2}
    ELSE RuntimePruneCirclesFirstOnly(g, ps, p1, sep, AdvanceStone(g, p2))

\* runtimePruner.PruneCircles as its loop runs, with the grid iterator at
\* p2: `for p2, ok := it.Next(); ok; ... { if Separation(p1, p2) == sep {
\* ps.Add(p2) } }`.
RECURSIVE RuntimePruneCircles(_, _, _, _, _)
RuntimePruneCircles(g, ps, p1, sep, p2) ==
    IF ~IsInBounds(g, p2) THEN ps
    ELSE RuntimePruneCircles(g,
             IF Separation(p1, p2) = sep THEN ps \cup {p2} ELSE ps,
             p1, sep, AdvanceStone(g, p2))

\* runtimePruner.PruneIsoceles as its loop runs, with the grid iterator at p3.
RECURSIVE RuntimePruneIsoceles(_, _, _, _, _)
RuntimePruneIsoceles(g, ps, p1, p2, p3) ==
    IF ~IsInBounds(g, p3) THEN ps
    ELSE RuntimePruneIsoceles(g,
             IF Separation(p1, p3) = Separation(p2, p3) THEN ps \cup {p3} ELSE ps,
             p1, p2, AdvanceStone(g, p3))

\* The calls compared: a grid, two of its points, a separation value up to
\* one more than the largest of the grid, and a target set.
PrunerCalls ==
    {c \in [solver : {"pruner"}, size : 1 .. MaxPrunerSize,
            p1 : GridPoints(MaxPrunerSize), p2 : GridPoints(MaxPrunerSize),
            sep : 0 .. (2 * (MaxPrunerSize - 1) * (MaxPrunerSize - 1) + 1),
            target : {{}, {ZeroPoint}}] :
        /\ IsInBounds(c.size, c.p1) /\ IsInBounds(c.size, c.p2)
        /\ c.sep =< 2 * (c.size - 1) * (c.size - 1) + 1}

PrunerInit ==
    \E c \in PrunerCalls :
        /\ cfg = c
        /\ mainpc = "start"
        /\ hist = [runtime |-> c.target, precomputed |-> c.target]
        /\ result = [err |-> FALSE, sol |-> NilSlice]
        /\ seedIdx = 1
        /\ pc = <<>> /\ placers = <<>> /\ base = <<>> /\ top = <<>>
        /\ pending = <<>> /\ buf = <<>> /\ answering = <<>> /\ inbox = <<>>
        /\ done = FALSE
        /\ solutions = <<>>
        /\ suppc = "idle"
        /\ feeder = [pc |-> "idle", to |-> 0]
        /\ work = <<>>

\* PruneIsoceles(target, p1, p2) on either pruner.
PrunerPruneIsoceles ==
    /\ mainpc = "start"
    /\ hist' = [runtime |-> RuntimePruneIsoceles(cfg.size, cfg.target, cfg.p1,
                                                 cfg.p2, ZeroPoint),
                precomputed |-> PrecomputedPruneIsoceles(cfg.size, cfg.target,
                                                         cfg.p1, cfg.p2)]
    /\ mainpc' = "isoceles"
    /\ UNCHANGED callFrame

\* PruneCircles(target, p1, sep) on either pruner.
PrunerPruneCircles ==
    /\ mainpc = "start"
    /\ hist' = [runtime |-> RuntimePruneCircles(cfg.size, cfg.target, cfg.p1,
                                                cfg.sep, ZeroPoint),
                precomputed |-> PrecomputedPruneCircles(cfg.size, cfg.target,
                                                        cfg.p1, cfg.sep)]
    /\ mainpc' = "circles"
    /\ UNCHANGED callFrame

PrunerNext ==
    \/ PrunerPruneIsoceles
    \/ PrunerPruneCircles

PrunerSpec == PrunerInit /\ [][PrunerNext]_vars

\* C18: the two pruners leave the same points in the target set, after
\* PruneIsoceles as after PruneCircles.
C18_PrunersAgree ==
    mainpc \in {"isoceles", "circles"} => hist.runtime = hist.precomputed

\* C18 for two different points and a separation other than 0.
C18_PrunersAgreeOnProperCalls ==
    /\ (mainpc = "isoceles" /\ cfg.p1 # cfg.p2) => hist.runtime = hist.precomputed
    /\ (mainpc = "circles" /\ cfg.sep # 0) => hist.runtime = hist.precomputed

\* C18 witness: PruneIsoceles was called with the same point twice; the
\* runtime pruner added the whole grid, the precomputed pruner nothing.
C18_SamePointTwice ==
    /\ mainpc = "isoceles" /\ cfg.p1 = cfg.p2 /\ cfg.target = {}
    /\ hist.runtime = GridPoints(cfg.size)
    /\ hist.precomputed = {}

(***************************************************************************)
(* NewPrecomputedPruner called by several goroutines for one grid size.    *)
(* pc[c] is where caller c is in the function; hist holds the package      *)
(* variables mu and cachedPrecomputedPruners and the pruner objects: the   *)
(* object allocated by caller c is named c, 0 is nil.  arrivedDuring[c]    *)
(* remembers the caller whose precomputation was running when c arrived.   *)
(***************************************************************************)
MaxCallers == 3

Callers == DOMAIN pc

\* The iterations of the outer loop of NewPrecomputedPruner, one per p1.
PrecomputeSteps(g) == Cardinality(GridPoints(g))

cacheFrame ==
    <<cfg, mainpc, result, seedIdx, placers, base, top, pending, done,
      solutions, suppc, splitVars>>

CacheInit ==
    \E n \in 1 .. MaxPrunerSize, k \in 1 .. MaxCallers :
        /\ cfg = [solver |-> "prunercache", size |-> n]
        /\ mainpc = "start"
        /\ pc = [c \in 1 .. k |-> "idle"]
        /\ hist = [mu |-> 0,
                   cachedPrecomputedPruners |-> [s \in 1 .. MaxPrunerSize |-> 0],
                   filled |-> [c \in 1 .. k |-> 0],
                   precomputations |-> 0,
                   writtenAfterPublish |-> FALSE,
                   got |-> [c \in 1 .. k |-> 0],
                   arrivedDuring |-> [c \in 1 .. k |-> 0],
                   prunedUnder |-> [c \in 1 .. k |-> -1]]
        /\ result = [err |-> FALSE, sol |-> NilSlice]
        /\ seedIdx = 1
        /\ placers = <<>> /\ base = <<>> /\ top = <<>>
        /\ pending = <<>> /\ buf = <<>> /\ answering = <<>> /\ inbox = <<>>
        /\ done = FALSE
        /\ solutions = <<>>
        /\ suppc = "idle"
        /\ feeder = [pc |-> "idle", to |-> 0]
        /\ work = <<>>

\* The caller enters NewPrecomputedPruner and reaches mu.Lock().
CacheCall(c) ==
    /\ pc[c] = "idle"
    /\ pc' = [pc EXCEPT ![c] = "lock"]
    /\ hist' = [hist EXCEPT !.arrivedDuring[c] =
                    IF hist.mu # 0 /\ pc[hist.mu] = "precompute" THEN hist.mu ELSE 0]
    /\ UNCHANGED cacheFrame

\* mu.Lock() that returns whether or not the mutex is held.
CacheLockNoWait(c) ==
    /\ pc[c] = "lock"
    /\ hist' = [hist EXCEPT !.mu = c]
    /\ pc' = [pc EXCEPT ![c] = "check"]
    /\ UNCHANGED cacheFrame

\* mu.Lock() returns: the mutex was free and is now held by the caller.
CacheLock(c) ==
    /\ pc[c] = "lock"
    /\ hist.mu = 0
    /\ hist' = [hist EXCEPT !.mu = c]
    /\ pc' = [pc EXCEPT ![c] = "check"]
    /\ UNCHANGED cacheFrame

\* Variant: the cached pruner is returned with the mutex still held.
CacheHitKeepsMutex(c) ==
    /\ pc[c] = "check"
    /\ hist.cachedPrecomputedPruners[cfg.size] # 0
    /\ hist' = [hist EXCEPT !.got[c] = hist.cachedPrecomputedPruners[cfg.size]]
    /\ pc' = [pc EXCEPT ![c] = "returned"]
    /\ UNCHANGED cacheFrame

\* pruner != nil: return the cached pruner; the deferred mu.Unlock() runs.
CacheHit(c) ==
    /\ pc[c] = "check"
    /\ hist.cachedPrecomputedPruners[cfg.size] # 0
    /\ hist' = [hist EXCEPT !.got[c] = hist.cachedPrecomputedPruners[cfg.size],
                            !.mu = 0]
    /\ pc' = [pc EXCEPT ![c] = "returned"]
    /\ UNCHANGED cacheFrame

\* pruner == nil: p := &precomputedPruner{} and the precomputation starts.
CacheMiss(c) ==
    /\ pc[c] = "check"
    /\ hist.cachedPrecomputedPruners[cfg.size] = 0
    /\ hist' = [hist EXCEPT !.precomputations = @ + 1]
    /\ pc' = [pc EXCEPT ![c] = "precompute"]
    /\ UNCHANGED cacheFrame

\* One iteration of the outer loop: the entries of one p1 are written to p.
CachePrecompute(c) ==
    /\ pc[c] = "precompute"
    /\ hist.filled[c] < PrecomputeSteps(cfg.size)
    /\ hist' = [hist EXCEPT
                  !.filled[c] = @ + 1,
                  !.writtenAfterPublish =
                      @ \/ (c \in {hist.cachedPrecomputedPruners[s] :
                                      s \in 1 .. MaxPrunerSize})]
    /\ UNCHANGED <<pc, cacheFrame>>

\* cachedPrecomputedPruners[g.Size-1] = p, after the loops.
CachePublish(c) ==
    /\ pc[c] = "precompute"
    /\ hist.filled[c] = PrecomputeSteps(cfg.size)
    /\ hist' = [hist EXCEPT !.cachedPrecomputedPruners[cfg.size] = c]
    /\ pc' = [pc EXCEPT ![c] = "publish"]
    /\ UNCHANGED cacheFrame

\* return p; the deferred mu.Unlock() runs.
CacheReturn(c) ==
    /\ pc[c] = "publish"
    /\ hist' = [hist EXCEPT !.got[c] = c, !.mu = 0]
    /\ pc' = [pc EXCEPT ![c] = "returned"]
    /\ UNCHANGED cacheFrame

\* precomputedPruner.PruneIsoceles / PruneCircles on the pruner the caller
\* got: ps.Union of one precomputed set; mu is not touched.  prunedUnder
\* records who held the mutex during the caller's first such call (0:
\* nobody, -1: no call yet).
CachePrune(c) ==
    /\ pc[c] = "returned"
    /\ hist.prunedUnder[c] = -1
    /\ hist' = [hist EXCEPT !.prunedUnder[c] = hist.mu]
    /\ UNCHANGED <<pc, cacheFrame>>

CacheNext ==
    \/ \E c \in Callers : CacheCall(c)
    \/ \E c \in Callers : CacheLock(c)
    \/ \E c \in Callers : CacheHit(c)
    \/ \E c \in Callers : CacheMiss(c)
    \/ \E c \in Callers : CachePrecompute(c)
    \/ \E c \in Callers : CachePublish(c)
    \/ \E c \in Callers : CacheReturn(c)
    \/ \E c \in Callers : CachePrune(c)

CacheSpec == CacheInit /\ [][CacheNext]_vars

\* C19: the precomputation runs at most once; while a caller is between
\* mu.Lock() and its return every other caller is outside or waiting at
\* mu.Lock(); every caller that has returned holds the one published pruner,
\* completely filled; no pruner is written after it was published.
C19_PrecomputedOnceAndShared ==
    /\ hist.precomputations =< 1
    /\ \A c \in Callers :
          pc[c] \in {"check", "precompute", "publish"} =>
              \A d \in Callers \ {c} : pc[d] \in {"idle", "lock", "returned"}
    /\ \A c \in Callers :
          pc[c] = "returned" =>
              /\ hist.got[c] # 0
              /\ hist.got[c] = hist.cachedPrecomputedPruners[cfg.size]
              /\ hist.filled[hist.got[c]] = PrecomputeSteps(cfg.size)
    /\ ~hist.writtenAfterPublish

\* C19 witness: a caller arrived during the precomputation of another,
\* waited, and both have returned with the same pruner.
C19_WaiterGotBuiltPruner ==
    \E c \in Callers, d \in Callers :
        /\ c # d
        /\ pc[c] = "returned" /\ pc[d] = "returned"
        /\ hist.got[c] = c /\ hist.got[d] = c
        /\ hist.arrivedDuring[d] = c
        /\ hist.precomputations = 1

\* C20: every cell in the pruned set of a pruning placer that is not one of
\* its stones is a cell where a stone would repeat a separation: one from
\* the cell to a stone is in the placer's set, or two stones are at the same
\* separation from the cell.
C20_PrunedCellsRepeatSeparation ==
    (cfg.placer \in PruningKinds /\ mainpc = "ready") =>
        \A cell \in Cur(1).pruned :
            cell \notin NewPointSet(Cur(1).stones) =>
                \/ SeparationInUse(cfg.placer, Cur(1), cell)
                \/ SeparationRepeated(cfg.placer, Cur(1), cell)

\* C20 witness: a pruning placer that skipped a pruned cell: after a
\* successful Place its cursor is more than one cell past the stone placed,
\* and a cell in between is pruned and holds no stone.
C20_CursorSkippedPrunedCell ==
    /\ cfg.placer \in PruningKinds /\ mainpc = "ready"
    /\ hist.op = "place" /\ ~hist.err
    /\ ValidSeed(cfg.size, cfg.seed)
    /\ \E cell \in Cur(1).pruned :
          /\ cell \notin NewPointSet(Cur(1).stones)
          /\ LessThan(Cur(1).stones[Len(Cur(1).stones)], cell)
          /\ LessThan(cell, Cur(1).nextStone)

(***************************************************************************)
(* package sets: the bit-array sets next to the map-based sets.            *)
(*                                                                         *)
(* A set object is a cell of a heap, named [fam, addr].  A bit-array cell  *)
(* holds the words of the array, each word as the set of its 1 bits; a map *)
(* cell holds the keys of the map (every key maps to true).                *)
(***************************************************************************)
MaxSeparation == (MaxGridSize - 1) * (MaxGridSize - 1) * 2

NumSetVars == 2

SetKinds == {"separation", "point"}

NumSetValues == 2

\* The values the operations are called with, the first NumSetValues of:
\* for separations the ends of the range and both sides of a word boundary,
\* for points corners of the largest grid and inner points.
SetValues(kind) ==
    LET all == IF kind = "separation" THEN <<MaxSeparation, 0, 64, 63, 1>>
               ELSE <<Point(MaxGridSize - 1, MaxGridSize - 1), ZeroPoint,
                      Point(1, 2), Point(0, MaxGridSize - 1), Point(1, 0)>>
    IN  {all[i] : i \in 1 .. NumSetValues}

\* BitArraySeparationSet is [6]uint64, BitArrayPointSet is [16]uint16.
EmptyBitArray(kind) ==
    [w \in 0 .. (IF kind = "separation" THEN 5 ELSE 15) |-> {}]

\* The word an element lives in: ss[sep>>6], ps[p.Row].
WordOf(kind, v) == IF kind = "separation" THEN v \div 64 ELSE v.Row

\* The mask of an element: 0x1<<(sep&0x3f), 0x8000>>p.Col.
MaskOf(kind, v) ==
    IF kind = "separation" THEN {v % 64}
    ELSE IF v.Col < 16 THEN {15 - v.Col} ELSE {}

BitArrayHas(kind, c, v) == c[WordOf(kind, v)] \cap MaskOf(kind, v) # {}

BitArrayAdd(kind, c, v) ==
    [c EXCEPT ![WordOf(kind, v)] = @ \cup MaskOf(kind, v)]

\* Variant: the skip to the next row keeps the column.
RECURSIVE SkipEmptyRowsKeepsCol(_, _)
SkipEmptyRowsKeepsCol(ps, n) ==
    IF n.Row < MaxGridSize /\ ps[n.Row] = {}
    THEN SkipEmptyRowsKeepsCol(ps, Point(n.Row + 1, n.Col))
    ELSE n

\* The inner loop of bitArrayPointSetIterator.Next: skip the empty rows.
RECURSIVE SkipEmptyRows(_, _)
SkipEmptyRows(ps, n) ==
    IF n.Row < MaxGridSize /\ ps[n.Row] = {}
    THEN SkipEmptyRows(ps, Point(n.Row + 1, 0))
    ELSE n

\* The outer loop of bitArrayPointSetIterator.Next with pi.next = n, from
\* its condition on: the value it leaves in pi.next.
RECURSIVE IterSeek(_, _)
IterSeek(ps, n) ==
    IF n.Row >= MaxGridSize THEN n
    ELSE LET m == SkipEmptyRows(ps, n)
         IN  IF BitArrayHas("point", ps, m) THEN m
             ELSE IterSeek(ps, AdvanceStone(MaxGridSize, m))

\* The points an iterator with pi.next = n yields until Next returns false.
RECURSIVE IterDrain(_, _)
IterDrain(ps, n) ==
    IF n.Row >= MaxGridSize THEN {}
    ELSE {n} \cup IterDrain(ps, IterSeek(ps, AdvanceStone(MaxGridSize, n)))

\* BitArrayPointSet.Iter (which calls Next once when {0,0} is no member)
\* drained, as BitArrayPointSet.Elements and genericPointSetUnion do.
BitArrayPointElements(ps) ==
    IterDrain(ps, IF BitArrayHas("point", ps, ZeroPoint) THEN ZeroPoint
                  ELSE IterSeek(ps, AdvanceStone(MaxGridSize, ZeroPoint)))

\* BitArraySeparationSet.Elements: the loop over 0 .. MaxSeparation.
BitArraySeparationElements(ss) ==
    {sep \in 0 .. MaxSeparation : BitArrayHas("separation", ss, sep)}

\* Elements() of the object r of heap h, as a set.
SetElements(kind, h, r) ==
    IF r.fam = "map" THEN h.map[r.addr]
    ELSE IF kind = "separation" THEN BitArraySeparationElements(h.bit[r.addr])
    ELSE BitArrayPointElements(h.bit[r.addr])

SetHas(kind, h, r, v) ==
    IF r.fam = "map" THEN v \in h.map[r.addr]
    ELSE BitArrayHas(kind, h.bit[r.addr], v)

SetAdd(kind, h, r, v) ==
    IF r.fam = "map" THEN [h EXCEPT !.map[r.addr] = @ \cup {v}]
    ELSE [h EXCEPT !.bit[r.addr] = BitArrayAdd(kind, @, v)]

\* for _, e := range elements { r.Add(e) }
RECURSIVE SetAddAll(_, _, _, _)
SetAddAll(kind, h, r, es) ==
    IF es = {} THEN h
    ELSE LET e == CHOOSE x \in es : TRUE
         IN  SetAddAll(kind, SetAdd(kind, h, r, e), r, es \ {e})

\* Variant: between bit arrays the receiver's words are overwritten.
SetUnionOverwriting(kind, h, r, r2) ==
    IF r.fam = "bit" /\ r2.fam = "bit"
    THEN [h EXCEPT !.bit[r.addr] = h.bit[r2.addr]]
    ELSE SetAddAll(kind, h, r, SetElements(kind, h, r2))

\* r.Union(r2): bit arrays are or-ed word by word (the point set through
\* its [4]uint64 view), every other pair adds the elements of r2 one by one.
SetUnion(kind, h, r, r2) ==
    IF r.fam = "bit" /\ r2.fam = "bit"
    THEN [h EXCEPT !.bit[r.addr] =
             [w \in DOMAIN @ |-> @[w] \cup h.bit[r2.addr][w]]]
    ELSE SetAddAll(kind, h, r, SetElements(kind, h, r2))

SetClear(kind, h, r) ==
    IF r.fam = "map" THEN [h EXCEPT !.map[r.addr] = {}]
    ELSE [h EXCEPT !.bit[r.addr] = EmptyBitArray(kind)]

\* r.Clone(r2): *ss = *t between bit arrays, Clear then Union otherwise.
SetClone(kind, h, r, r2) ==
    IF r.fam = "bit" /\ r2.fam = "bit"
    THEN [h EXCEPT !.bit[r.addr] = h.bit[r2.addr]]
    ELSE SetUnion(kind, SetClear(kind, h, r), r, r2)

(***************************************************************************)
(* The set operations run on NumSetVars variables of each family, the same *)
(* operation on the bit-array variable and on the map variable of the same *)
(* index.  hist.ref[fam][i] is the object variable i of family fam refers  *)
(* to, hist.heap the objects; hist.op, target, operand and argFam describe  *)
(* the last call (its argument is variable operand of family argFam, for   *)
(* the receivers of both families), hist.before the members its target had *)
(* before it, by family, hist.argBefore those of its argument, and         *)
(* hist.copyOf[i] the variable that variable i was last copied or cloned   *)
(* from (0: none).                                                         *)
(***************************************************************************)
SetFamilies == {"bit", "map"}

SetVar(fam, i) == [fam |-> fam, addr |-> hist.ref[fam][i]]

\* Variant: Copy returns the receiver itself.
CopyShared(refs, t, o) == refs[o]

\* The object a Copy assigned to variable t allocates: storage no other
\* variable refers to.
CopyFresh(refs, t, o) ==
    CHOOSE a \in 1 .. NumSetVars :
        /\ \A i \in (1 .. NumSetVars) \ {t} : refs[i] # a
        /\ \A b \in 1 .. (a - 1) : \E i \in (1 .. NumSetVars) \ {t} : refs[i] = b

SetsInit ==
    \E k \in SetKinds :
        /\ cfg = [solver |-> "sets", kind |-> k]
        /\ mainpc = "start"
        /\ hist = [heap |-> [bit |-> [a \in 1 .. NumSetVars |-> EmptyBitArray(k)],
                             map |-> [a \in 1 .. NumSetVars |-> {}]],
                   ref |-> [f \in SetFamilies |-> [i \in 1 .. NumSetVars |-> i]],
                   op |-> "new", target |-> 1, operand |-> 1, argFam |-> "bit",
                   before |-> [f \in SetFamilies |-> {}],
                   argBefore |-> {},
                   copyOf |-> [i \in 1 .. NumSetVars |-> 0]]
        /\ result = [err |-> FALSE, sol |-> NilSlice]
        /\ seedIdx = 1
        /\ pc = <<>> /\ placers = <<>> /\ base = <<>> /\ top = <<>>
        /\ pending = <<>> /\ buf = <<>> /\ answering = <<>> /\ inbox = <<>>
        /\ done = FALSE
        /\ solutions = <<>>
        /\ suppc = "idle"
        /\ feeder = [pc |-> "idle", to |-> 0]
        /\ work = <<>>

\* The heap after the same call on both variables t: each call is made on
\* the heap as it was and changes only the object of its own family.
SetsBoth(onBit, onMap) == [bit |-> onBit.bit, map |-> onMap.map]

\* The members of variable i of a family, by Has over the capacity.
Members(fam, i) ==
    {v \in IF cfg.kind = "separation" THEN 0 .. MaxSeparation
           ELSE GridPoints(MaxGridSize) :
        SetHas(cfg.kind, hist.heap, SetVar(fam, i), v)}

\* The called values among the members of an object.
CalledMembers(r) ==
    {v \in SetValues(cfg.kind) : SetHas(cfg.kind, hist.heap, r, v)}

SetsCalled(h, op, t, o, af) ==
    /\ hist' = [hist EXCEPT !.heap = h, !.op = op, !.target = t,
                            !.operand = o, !.argFam = af,
                            !.before = [f \in SetFamilies |->
                                          CalledMembers(SetVar(f, t))],
                            !.argBefore = CalledMembers(SetVar(af, o)),
                            !.copyOf[t] = IF op = "Clone" /\ o # t THEN o ELSE @]
    /\ UNCHANGED <<mainpc, callFrame>>

\* s.Add(v)
SetsAdd(t, v) ==
    SetsCalled(SetsBoth(SetAdd(cfg.kind, hist.heap, SetVar("bit", t), v),
                        SetAdd(cfg.kind, hist.heap, SetVar("map", t), v)),
               "Add", t, t, "bit")

\* s.Union(other)
SetsUnion(t, o, af) ==
    SetsCalled(SetsBoth(SetUnion(cfg.kind, hist.heap, SetVar("bit", t),
                                 SetVar(af, o)),
                        SetUnion(cfg.kind, hist.heap, SetVar("map", t),
                                 SetVar(af, o))),
               "Union", t, o, af)

\* s.Clear()
SetsClear(t) ==
    SetsCalled(SetsBoth(SetClear(cfg.kind, hist.heap, SetVar("bit", t)),
                        SetClear(cfg.kind, hist.heap, SetVar("map", t))),
               "Clear", t, t, "bit")

\* s.Clone(other)
SetsClone(t, o, af) ==
    SetsCalled(SetsBoth(SetClone(cfg.kind, hist.heap, SetVar("bit", t),
                                 SetVar(af, o)),
                        SetClone(cfg.kind, hist.heap, SetVar("map", t),
                                 SetVar(af, o))),
               "Clone", t, o, af)

\* c = s.Copy(): variable t refers to a new object with the content of o's.
SetsCopy(t, o) ==
    LET a == [f \in SetFamilies |-> CopyFresh(hist.ref[f], t, o)]
    IN  /\ hist' = [hist EXCEPT
                      !.heap = [f \in SetFamilies |->
                                  [hist.heap[f] EXCEPT ![a[f]] =
                                      hist.heap[f][hist.ref[f][o]]]],
                      !.ref = [f \in SetFamilies |->
                                  [hist.ref[f] EXCEPT ![t] = a[f]]],
                      !.op = "Copy", !.target = t, !.operand = o,
                      !.argFam = "bit",
                      !.before = [f \in SetFamilies |->
                                    CalledMembers(SetVar(f, t))],
                      !.argBefore = CalledMembers(SetVar("bit", o)),
                      !.copyOf[t] = IF o # t THEN o ELSE @]
        /\ UNCHANGED <<mainpc, callFrame>>

SetsNext ==
    \/ \E t \in 1 .. NumSetVars, v \in SetValues(cfg.kind) : SetsAdd(t, v)
    \/ \E t, o \in 1 .. NumSetVars, af \in SetFamilies : SetsUnion(t, o, af)
    \/ \E t \in 1 .. NumSetVars : SetsClear(t)
    \/ \E t, o \in 1 .. NumSetVars, af \in SetFamilies : SetsClone(t, o, af)
    \/ \E t, o \in 1 .. NumSetVars : SetsCopy(t, o)

SetsSpec == SetsInit /\ [][SetsNext]_vars


\* C21: after every sequence of calls the bit-array variable and the map
\* variable of the same index hold the same members, by Has over the whole
\* capacity and by Elements; fresh sets have no member; an Add adds its
\* value to the members of its target and nothing else.
C21_BitArrayMatchesMap ==
    /\ \A i \in 1 .. NumSetVars :
          /\ Members("bit", i) = Members("map", i)
          /\ SetElements(cfg.kind, hist.heap, SetVar("bit", i))
                = SetElements(cfg.kind, hist.heap, SetVar("map", i))
          /\ SetElements(cfg.kind, hist.heap, SetVar("bit", i)) = Members("bit", i)
          /\ hist.op = "new" => Members("bit", i) = {}
    /\ hist.op = "Add" =>
          \E v \in SetValues(cfg.kind) : \A f \in SetFamilies :
              Members(f, hist.target) = hist.before[f] \cup {v}

\* C21 witness: a map set cloned itself and lost its members, which the
\* bit-array set of the same index kept.
C21_MapEmptiedByCloningItself ==
    /\ hist.op = "Clone" /\ hist.target = hist.operand /\ hist.argFam = "map"
    /\ Members("map", hist.target) = {}
    /\ Members("bit", hist.target) # {}

\* C22: no call changes a set other than its receiver: after every Add,
\* Union, Clear, Clone and Copy the object of every variable but the target
\* is as it was, in both families, so a copy and its original (and a clone
\* and the set it was cloned from) keep their members when the other one is
\* changed; a Copy gives its target the content of the original.
C22_CopiesShareNoStorage ==
    [][/\ \A f \in SetFamilies : \A i \in 1 .. NumSetVars :
             i # hist'.target =>
                 hist'.heap[f][hist'.ref[f][i]] = hist.heap[f][hist.ref[f][i]]
       /\ hist'.op = "Copy" =>
             \A f \in SetFamilies :
                 hist'.heap[f][hist'.ref[f][hist'.target]]
                     = hist.heap[f][hist.ref[f][hist'.operand]]]_vars

\* C22 witness: a variable was copied or cloned from another, then one of
\* the two was changed, and the two now hold different members.
C22_CopyChangedAlone ==
    \E t, o \in 1 .. NumSetVars :
        /\ t # o /\ hist.copyOf[t] = o
        /\ hist.op \in {"Add", "Union", "Clear"}
        /\ hist.target \in {t, o}
        /\ \A f \in SetFamilies :
              CalledMembers(SetVar(f, t)) # CalledMembers(SetVar(f, o))

\* C23: after s.Clone(other), for a receiver of either family and an
\* argument of either family, s has exactly the members other had, by Has
\* and by Elements, whatever s held before, and other still has them.
C23_CloneTakesMembersOfOther ==
    hist.op = "Clone" =>
        /\ \A f \in SetFamilies :
              /\ Members(f, hist.target) = hist.argBefore
              /\ SetElements(cfg.kind, hist.heap, SetVar(f, hist.target))
                    = hist.argBefore
        /\ CalledMembers(SetVar(hist.argFam, hist.operand)) = hist.argBefore

\* C23 witness: a map set with members was cloned from itself and is empty.
C23_MapClonedFromItself ==
    /\ hist.op = "Clone" /\ hist.target = hist.operand /\ hist.argFam = "map"
    /\ hist.before["map"] # {}
    /\ SetElements(cfg.kind, hist.heap, SetVar("map", hist.target)) = {}

\* C24: after a.Union(b), for a receiver and an argument of either family,
\* a has exactly the members a and b had and b has those it had; b.Union(a)
\* then leaves b with the same members as a (commutative), and repeating
\* a.Union(b) changes nothing (idempotent; a.Union(a) is the case b = a).
C24_UnionIsSetUnion ==
    hist.op = "Union" =>
        LET b == SetVar(hist.argFam, hist.operand)
        IN  /\ CalledMembers(b) = hist.argBefore
            /\ \A f \in SetFamilies :
                  LET a == SetVar(f, hist.target)
                  IN  /\ Members(f, hist.target) = hist.before[f] \cup hist.argBefore
                      /\ SetElements(cfg.kind, hist.heap, a)
                            = hist.before[f] \cup hist.argBefore
                      /\ SetElements(cfg.kind,
                                     SetUnion(cfg.kind, hist.heap, b, a), b)
                            = SetElements(cfg.kind, hist.heap, a)
                      /\ SetUnion(cfg.kind, hist.heap, a, b) = hist.heap

\* C24 witness: a Union with a map-based argument gave the receivers of
\* both families members of their own and of the argument.
C24_UnionMergedTwoSets ==
    /\ hist.op = "Union" /\ hist.argFam = "map"
    /\ hist.target # hist.operand
    /\ \A f \in SetFamilies :
          /\ hist.before[f] \ hist.argBefore # {}
          /\ hist.argBefore \ hist.before[f] # {}
          /\ Members(f, hist.target) = SetValues(cfg.kind)

\* The squared Euclidean distance of two points, in the integers.
SquaredDistance(p, q) ==
    (p.Row - q.Row) * (p.Row - q.Row) + (p.Col - q.Col) * (p.Col - q.Col)

HandoffStep(g, w) ==
    /\ pc[g] = "sendsel" /\ answering[g] = w
    /\ pc'[g] = "loop" /\ pc'[w] = "new"

\* C26 as stated: the dfs that answers a request hands over the stones of
\* its own placer sp (whose remaining cursor positions are the siblings)
\* and goes on one level deeper, in the child it has placed.
C26_HandsOffSiblingsKeepsChild ==
    [][\A g, w \in Searchers :
          HandoffStep(g, w) =>
              /\ inbox'[w].sent \in Placements(cfg.placer, cfg.pointSet, Cur(g))
              /\ top'[g] = top[g] + 1]_vars

\* C26 amended: the dfs that answers a request hands over the placements
\* of the child it has just placed and stays at its depth, where its
\* placer keeps its stones and the cursor Place has moved on: it goes on
\* with the remaining sibling positions.
C26_HandsOffChildKeepsSiblings ==
    [][\A g, w \in Searchers :
          HandoffStep(g, w) =>
              /\ inbox'[w].sent
                    \in Placements(cfg.placer, cfg.pointSet, placers[g][top[g] + 1])
              /\ NumPlaced(cfg.placer, placers[g][top[g] + 1])
                    = NumPlaced(cfg.placer, Cur(g)) + 1
              /\ top'[g] = top[g]
              /\ placers'[g][top[g]] = Cur(g)]_vars

\* C26 witness: a worker holds, not yet built into a placer, the child
\* another worker placed, while that worker is back in its loop at the
\* parent with its cursor past the stone it handed off.
C26_ChildHandedOffParentGoesOn ==
    \E g, w \in Searchers :
        /\ g # w /\ cfg.placer = "ordered"
        /\ pc[w] = "new" /\ pc[g] = "loop"
        /\ Len(inbox[w].sent) >= 2
        /\ Cur(g).stones = SubSeq(inbox[w].sent, 1, Len(inbox[w].sent) - 1)
        /\ LessThan(inbox[w].sent[Len(inbox[w].sent)], Cur(g).nextStone)

\* The points a placer holds, as a set.
StonesOf(sp) ==
    IF cfg.placer = "unordered" THEN sp.stones ELSE NewPointSet(sp.stones)

\* A request taken from the work queue is being answered: whoever took it
\* is in Send and its owner waits on the Response channel.
RequestsInHand ==
    /\ \A g \in Searchers :
          answering[g] # 0 =>
              /\ pc[g] \in {"sendcopy", "sendsel"}
              /\ pc[answering[g]] = "await"
    /\ feeder.to # 0 =>
          /\ feeder.pc \in {"copy", "send"}
          /\ pc[feeder.to] = "await"

\* The feeder moves to the next starting point only by delivering the
\* current one to exactly one waiting worker (or by giving up on done).
SeedDelivery ==
    seedIdx' # seedIdx =>
        /\ seedIdx' = seedIdx + 1
        /\ \/ done
           \/ \E w \in Searchers :
                 /\ pc[w] = "await" /\ pc'[w] = "new"
                 /\ buf'[w] = Seeds[seedIdx]
                 /\ inbox'[w].store = w
                 /\ \A v \in Searchers \ {w} :
                       pc'[v] = pc[v] /\ inbox'[v] = inbox[v]

\* A handoff gives the child to the requester alone, the placer the
\* requester will build from it is the child as Place returned it, and the
\* sender stays above it with its cursor past the stone of the child.
HandoffDelivery ==
    \A g, w \in Searchers :
        HandoffStep(g, w) =>
            LET child == placers[g][top[g] + 1]
                n == New(cfg.placer, cfg.size, buf'[w])
            IN  /\ inbox'[w].store = w
                /\ ~n.panic
                /\ n.placers[n.base] = child
                /\ \A v \in Searchers \ {g, w} :
                      pc'[v] = pc[v] /\ inbox'[v] = inbox[v]
                /\ top'[g] = top[g]
                /\ \A k \in 1 .. Len(buf'[w]) :
                      buf'[w][k] \in StonesOf(Cur(g))
                      \/ LessThan(buf'[w][k], Cur(g).nextStone)

\* C27 as stated: while done is open every starting placement and every
\* handed-off subtree goes to exactly one worker: seeds are delivered in
\* provider order to one worker each, a handed-off child is explored by the
\* requester and not by the sender, and no request taken from the queue is
\* left unanswered.
C27_EveryPartExploredOnce ==
    /\ [](~done => RequestsInHand)
    /\ [][SeedDelivery /\ HandoffDelivery]_vars

\* C27 for the runs in which no Send panics.
C27_ExploredOnceUnlessPanic ==
    /\ [](~done /\ mainpc # "crashed" => RequestsInHand)
    /\ [][SeedDelivery /\ HandoffDelivery]_vars

\* C27 failure: a worker has taken a request and panicked in Send with done
\* open; the request is never answered.
C27_RequestTakenThenPanic ==
    /\ ~done /\ mainpc = "crashed"
    /\ \E g \in Searchers : answering[g] # 0

\* The slices that have been sent on the solutions channel: those in its
\* buffer and the one Solve has received.
SentSolutions ==
    {solutions[k] : k \in DOMAIN solutions}
        \cup (IF mainpc \in {"close", "returned"} THEN {result.sol} ELSE {})

\* C28: the storage a slice sent on the solutions channel refers to is not
\* written again by the goroutine that produced it; with the
\* allocation-free placers no step of a search changes the stones of the
\* arena record a sent slice shares.
C28_SentSolutionNotOverwritten ==
    [][\A sl \in SentSolutions \cap SentSolutions' :
          sl.owner > 0 =>
              placers'[sl.owner][cfg.size].stones
                  = placers[sl.owner][cfg.size].stones]_vars

\* C28 failure: Solve holds a slice of a search goroutine's arena and that
\* goroutine is in the middle of a later Place into the same record, which
\* no longer holds the stones it held when Solve received the slice.
C28_ReturnedSliceBeingRewritten ==
    /\ mainpc \in {"close", "returned"}
    /\ result.sol.owner > 0
    /\ pc[result.sol.owner] = "store"
    /\ ~CheckValidSolution(cfg.size, Deref(result.sol))

\* Search goroutine g is in a Place call of dfs, or past the check of done
\* that precedes it.
InPlace(g) == g \in Searchers /\ pc[g] \in {"place", "store"}

\* Every identifier a search goroutine can have: one per starting point
\* (at most one per row or column of the grid) or one per worker.
SearcherIds ==
    1 .. (IF MaxParSize > MaxWorkers THEN MaxParSize ELSE MaxWorkers)

Queued(w) == \E k \in DOMAIN work : work[k] = w

\* Worker w's request has been taken from the work channel and not yet
\* answered or abandoned.
Taken(w) == feeder.to = w \/ \E g \in Searchers : answering[g] = w

\* The workers parked in their inner select whose request nobody has taken.
ParkedUntaken == {w \in Searchers : pc[w] = "await" /\ ~Taken(w)}

\* What C30 says of the work channel apart from its length: at most
\* numWorkers requests, none twice, a request is queued or in flight only
\* while its worker is not running dfs, and a worker about to publish finds
\* room.
WorkQueueBounds ==
    /\ Len(work) =< cfg.numWorkers
    /\ \A j, k \in DOMAIN work : work[j] = work[k] => j = k
    /\ \A w \in Searchers :
          /\ (Queued(w) \/ Taken(w)) => pc[w] \in {"await", "finished", "crashed"}
          /\ pc[w] = "request" => Len(work) < cfg.numWorkers

\* C30 as stated: the bounds, and in every state len(work) is the number
\* of parked workers whose request has not been taken.
C30_QueueLengthIsParkedWorkers ==
    /\ WorkQueueBounds
    /\ Len(work) = Cardinality(ParkedUntaken)

\* C30 amended: the bounds in every state, and while done is open and the
\* program runs len(work) is the number of parked workers whose request
\* has not been taken (a worker that returns on done leaves its request in
\* the channel).
C30_QueueLengthIsParkedWorkersUntilDone ==
    /\ WorkQueueBounds
    /\ (~done /\ mainpc # "crashed") =>
          /\ Len(work) = Cardinality(ParkedUntaken)
          /\ \A w \in Searchers : Queued(w) <=> w \in ParkedUntaken

\* C30 witness: done is open, one worker is parked with its request in the
\* channel and the other, who has published and been answered before, is
\* in dfs about to place.
C30_OneParkedOneSearching ==
    /\ ~done /\ cfg.numWorkers = 2
    /\ Len(work) = 1
    /\ \E g, w \in Searchers :
          /\ pc[g] = "place" /\ top[g] > 0
          /\ pc[w] = "await" /\ Queued(w) /\ ~Taken(w)

\* After the close a worker has returned and its request is still in the
\* work channel.
C30_RequestLeftByReturnedWorker ==
    done /\ \E w \in Searchers : pc[w] = "finished" /\ Queued(w)

\* C31 as stated: the mutex is held only for a first construction: whoever
\* holds it finds no pruner cached for the size or is the caller that has
\* just built and stored it; and the pruning methods leave the mutex alone.
C31_MutexHeldOnlyForConstruction ==
    /\ [](\A c \in Callers :
             hist.mu = c => hist.cachedPrecomputedPruners[cfg.size] \in {0, c})
    /\ [][\A c \in Callers :
             hist'.prunedUnder[c] # hist.prunedUnder[c] => hist'.mu = hist.mu]_vars

\* C31 amended: every call of NewPrecomputedPruner holds the mutex from its
\* mu.Lock() to its return, for the whole construction when it builds the
\* pruner and for the lookup alone when the pruner is cached; a caller
\* outside NewPrecomputedPruner never holds it, and the pruning methods
\* neither take nor release it, whoever holds it.
C31_MutexHeldForEveryCall ==
    /\ [](\A c \in Callers :
             /\ hist.mu = c <=> pc[c] \in {"check", "precompute", "publish"}
             /\ (hist.mu = c /\ hist.cachedPrecomputedPruners[cfg.size] \notin {0, c})
                   => pc[c] = "check")
    /\ [][\A c \in Callers :
             hist'.prunedUnder[c] # hist.prunedUnder[c] =>
                 /\ hist'.mu = hist.mu
                 /\ pc[c] = "returned" /\ pc' = pc]_vars

\* C31 witness: a caller has pruned with the cached pruner while another
\* caller, who found the pruner cached, held the mutex for its lookup.
C31_PrunedDuringCachedLookup ==
    \E c, d \in Callers :
        /\ c # d
        /\ hist.prunedUnder[c] = d
        /\ hist.got[d] # 0 /\ hist.got[d] # d

\* The walk is on a full pruning placer built from a valid seed.
FullPruningWalk ==
    /\ cfg.placer = "orderedPruningNoAlloc"
    /\ mainpc = "ready"
    /\ ValidSeed(cfg.size, cfg.seed)

\* A stone on the cell would repeat a separation of the placer.
Unplaceable(sp, cell) ==
    \/ SeparationInUse(cfg.placer, sp, cell)
    \/ SeparationRepeated(cfg.placer, sp, cell)

\* C32: in the full pruning placer, from New with a valid seed on, no Place
\* returns the distance-constraint error: the pruned set of the current
\* placer holds every cell after its last stone that is at a used
\* separation from a stone or equidistant from two stones, and the cursor
\* is on no such cell.
C32_FullPruningPlaceNeverFails ==
    FullPruningWalk =>
        /\ hist.op = "place" => ~hist.err
        /\ \A cell \in GridPoints(cfg.size) :
              ((\A i \in DOMAIN Cur(1).stones : LessThan(Cur(1).stones[i], cell))
                  /\ Unplaceable(Cur(1), cell))
                  => cell \in Cur(1).pruned
        /\ IsInBounds(cfg.size, Cur(1).nextStone)
              => ~Unplaceable(Cur(1), Cur(1).nextStone)

\* C32 witness: the last Place succeeded on a placer with two stones or
\* more whose cursor had skipped a cell that could not be placed.
C32_PlacedAfterSkippingUnplaceable ==
    /\ FullPruningWalk
    /\ hist.op = "place" /\ ~hist.err
    /\ Len(hist.before.stones) >= 2
    /\ \E cell \in GridPoints(cfg.size) :
          /\ LessThan(hist.before.stones[Len(hist.before.stones)], cell)
          /\ LessThan(cell, hist.before.nextStone)
          /\ Unplaceable(hist.before, cell)

\* Grid side of the walks of the pruning placers.
MaxPruningSize == 4

\* A pruning placer on the largest of these grids, built from the empty
\* seed or from one stone: the first grid on which a Place of a pruning
\* placer returns the distance-constraint error.
PruningWalkInit ==
    \E c \in [solver : {"placer"}, size : {MaxPruningSize}, placer : PruningKinds,
               provider : {"given"}, pointSet : {"array"}, numWorkers : {1},
               seed : SeedsUpTo(MaxPruningSize, 1)] :
        PlacerInitWith(c)

\* The walk goes back as a depth-first search does: when the current
\* placer is done or complete.
PruningWalkReturn ==
    /\ Done(cfg.size, Cur(1)) \/ NumPlaced(cfg.placer, Cur(1)) = cfg.size
    /\ PlacerReturn

PruningWalkNext ==
    \/ PlacerNew
    \/ PlacerPlaceFails
    \/ PlacerPlaceSucceeds
    \/ PruningWalkReturn

PruningWalkSpec == PruningWalkInit /\ [][PruningWalkNext]_vars

\* The cursor of sp is out of bounds or on a cell sp has not pruned.
CursorNotPruned(sp) ==
    IsInBounds(cfg.size, sp.nextStone) => sp.nextStone \notin sp.pruned

\* C33: in the pruning placers the cursor of the placer New returned, of
\* the receiver after every Place and of the child a successful Place
\* returned is out of bounds or on a cell that is not in that placer's
\* pruned set.
C33_CursorNeverOnPrunedCell ==
    (cfg.placer \in PruningKinds /\ mainpc = "ready") =>
        /\ CursorNotPruned(Cur(1))
        /\ (hist.op = "place" /\ ~hist.err)
              => CursorNotPruned(placers[1][top[1] - 1])

\* C33 witness: a Place of a pruning placer failed and the receiver's
\* cursor went past a pruned cell to the next cell that is not pruned.
C33_SkippedPrunedCellAfterFailure ==
    /\ cfg.placer \in PruningKinds /\ mainpc = "ready"
    /\ hist.op = "place" /\ hist.err
    /\ IsInBounds(cfg.size, Cur(1).nextStone)
    /\ \E cell \in Cur(1).pruned :
          /\ LessThan(hist.before.nextStone, cell)
          /\ LessThan(cell, Cur(1).nextStone)

\* Largest grid side of the runs of AsyncSolver on a complete starting
\* placement.
MaxGivenSize == 3

\* The complete valid placements of the grid of side g, in row-major order.
CompletePlacements(g) ==
    {SortedElements(ps) : ps \in {qs \in SUBSET GridPoints(g) :
        Cardinality(qs) = g /\ CheckValidSolution(g, SortedElements(qs))}}

\* AsyncSolver with an allocation-free placer and a caller-supplied
\* StartingPointsProvider that returns one complete valid placement.
GivenSeedInit ==
    \E n \in 2 .. MaxGivenSize :
        \E c \in [solver : {"async"}, size : {n}, placer : NoAllocKinds,
                   provider : {"given"}, pointSet : {"array"}, numWorkers : {1},
                   seed : CompletePlacements(n)] :
            InitRun(c, {1})

\* sp.Place() on the record at depth Size of an allocation-free placer:
\* nextPlacer is nil and sp.nextPlacer.separations panics (nil pointer
\* dereference).
DfsPlaceOnLastRecord(g) ==
    /\ pc[g] = "place"
    /\ cfg.placer \in NoAllocKinds
    /\ top[g] = cfg.size
    /\ Crash
    /\ UNCHANGED <<cfg, result, seedIdx, placers, base, top, pending, done,
                   solutions, work, buf, answering, inbox, hist>>

GivenSeedNext ==
    \/ AsyncStart
    \/ MainRecv
    \/ MainClose
    \/ AsyncSupWait
    \/ SupSendsNil
    \/ \E g \in Searchers : DfsLoopExit(g, "finished")
    \/ \E g \in Searchers : DfsLoopCheck(g)
    \/ \E g \in Searchers : DfsPlaceOnLastRecord(g)

GivenSeedSpec == GivenSeedInit /\ [][GivenSeedNext]_vars

\* Search goroutine g ends a successful Place in this step: it recurses
\* into the child, or has stored the last stone of a complete child.
PlaceSucceedsStep(g) ==
    \/ pc[g] = "place" /\ pc'[g] = "loop" /\ top'[g] = top[g] + 1
    \/ pc[g] = "store" /\ pc'[g] = "send"

\* C34: in the allocation-free placers the record at depth i holds exactly
\* i placements; a successful Place at depth i leaves in the record at
\* depth i+1 the parent's placements followed by the cursor cell; no Place
\* changes the placements or the separations of its receiver; and a solver
\* never calls Place on the record at depth N, whose nextPlacer is nil.
C34_ArenaRecordsByDepth ==
    /\ [](cfg.placer \in NoAllocKinds /\ mainpc # "start" =>
             \A g \in Searchers :
                 /\ \A d \in 0 .. cfg.size : Len(placers[g][d].stones) = d
                 /\ pc[g] \in {"place", "store"} => top[g] < cfg.size)
    /\ [][cfg.placer \in NoAllocKinds =>
             \A g \in Searchers :
                 /\ PlaceSucceedsStep(g) =>
                       placers'[g][top[g] + 1].stones
                           = Append(Cur(g).stones, Cur(g).nextStone)
                 /\ pc[g] \in {"place", "store"} =>
                       /\ placers'[g][top[g]].stones = Cur(g).stones
                       /\ placers'[g][top[g]].separations = Cur(g).separations]_vars

\* C34 witness: a search with an allocation-free placer has placed two
\* stones and the record below still holds a stone of an earlier branch.
C34_RecordReused ==
    /\ cfg.placer \in NoAllocKinds
    /\ \E g \in Searchers :
          /\ pc[g] = "loop" /\ top[g] = 2 /\ cfg.size > 2
          /\ SubSeq(placers[g][3].stones, 1, 2) # Cur(g).stones
          /\ placers[g][3].stones[3] # ZeroPoint

\* C34 failure: AsyncSolver was given a complete starting placement whose
\* last stone is not on the last cell, and its dfs called Place on the
\* record at depth Size: the process has panicked.
C34_PlaceOnLastRecordPanicked ==
    /\ cfg.placer \in NoAllocKinds
    /\ mainpc = "crashed"
    /\ top[1] = cfg.size /\ NumPlaced(cfg.placer, Cur(1)) = cfg.size

\* SingleThreadedSolver.Solve, where the one goroutine keeps running.
FairSeqSpec == SeqInit /\ [][SeqNext]_vars /\ WF_vars(SeqNext)

\* The step is a Place call of the sequential dfs on its current placer.
SeqPlaceStep == mainpc' = "dfs" /\ top'[1] >= top[1]

\* C35: in the loop of the sequential dfs Place is called exactly while
\* the cursor is inside the grid (Done() is false), every call, successful
\* or not, leaves the receiver's cursor on a later cell in row-major order,
\* so a placer takes at most N*N calls, and Solve returns.
C35_CursorForwardAndSearchEnds ==
    /\ [][(mainpc = "dfs" /\ pc[1] = "loop") =>
             IF IsInBounds(cfg.size, Cur(1).nextStone)
             THEN /\ SeqPlaceStep
                  /\ LessThan(Cur(1).nextStone, placers'[1][top[1]].nextStone)
                  /\ placers'[1][top[1]].nextStone.Col < cfg.size
             ELSE ~SeqPlaceStep]_vars
    /\ <>(mainpc = "returned")

\* C35 witness: a search of the largest grid from starting placements
\* without a solution has tried every cell at every depth and returned.
C35_ExhaustedSearchReturned ==
    /\ cfg.solver = "single" /\ cfg.size = MaxSeqSize
    /\ mainpc = "returned" /\ result.err
    /\ \E d \in 1 .. cfg.size : ~IsInBounds(cfg.size, placers[1][d].nextStone)

\* The stones of sp are cells of the grid and no two are on one cell.
StonesOnDistinctCells(sp) ==
    /\ \A p \in StonesOf(sp) : IsInBounds(cfg.size, p)
    /\ cfg.placer # "unordered" =>
          \A i, j \in 1 .. Len(sp.stones) :
              i # j => sp.stones[i] # sp.stones[j]

\* The placer of each dfs call in progress.
PlacersInUse ==
    UNION {{placers[g][d] : d \in base[g] .. top[g]} : g \in Searchers}

\* C36: in every state of a solver run from the standard starting points,
\* the stones of the placer of every dfs call in progress are inside the
\* grid and on distinct cells.
C36_StonesInsideGridOnDistinctCells ==
    \A sp \in PlacersInUse : StonesOnDistinctCells(sp)

\* C36: the unordered placer built from a complete starting placement of
\* the 1x1 grid has skipped its only cell and placed a stone on row 1.
C36_StonePlacedBelowGrid ==
    /\ cfg.placer = "unordered" /\ cfg.size = 1
    /\ \E g \in Searchers :
          /\ top[g] > base[g]
          /\ Point(1, 0) \in StonesOf(Cur(g))

(***************************************************************************)
(* BitArrayPointSet.Iter and Elements, call by call.                       *)
(*   hist.ps       the point set,                                          *)
(*   hist.next     the iterator's next field,                              *)
(*   hist.yielded  the points Next has returned with true,                 *)
(*   hist.elements what Elements() returned.                               *)
(***************************************************************************)
MaxIterPoints == 5

\* The points the sets are built from, the first MaxIterPoints of these:
\* corners of the largest grid, ends of rows, and points after empty rows.
IterPool ==
    LET all == <<ZeroPoint, Point(MaxGridSize - 1, MaxGridSize - 1),
                 Point(1, 0), Point(0, MaxGridSize - 1), Point(1, 2),
                 Point(7, 7), Point(MaxGridSize - 1, 0), Point(0, 1)>>
    IN  {all[i] : i \in 1 .. MaxIterPoints}

\* NewBitArrayPointSet(points): Add of every point to the zero array.
RECURSIVE NewBitArrayPointSet(_)
NewBitArrayPointSet(points) ==
    IF points = {} THEN EmptyBitArray("point")
    ELSE LET p == CHOOSE q \in points : TRUE
         IN  BitArrayAdd("point", NewBitArrayPointSet(points \ {p}), p)

\* BitArrayPointSet.Iter: the iterator's next field when Iter returns.
IterStart(ps) ==
    IF BitArrayHas("point", ps, ZeroPoint) THEN ZeroPoint
    ELSE IterSeek(ps, AdvanceStone(MaxGridSize, ZeroPoint))

\* A set built from some points of the pool, or the empty set that
\* Test_bitArrayPointSet_MaxGridPoints is about to fill.
IterInit ==
    \E full \in BOOLEAN, S \in SUBSET IterPool :
        /\ full => S = {}
        /\ cfg = [solver |-> "iter", full |-> full]
        /\ mainpc = IF full THEN "filling" ELSE "start"
        /\ hist = [ps |-> NewBitArrayPointSet(S), fill |-> ZeroPoint,
                   next |-> ZeroPoint, yielded |-> <<>>, elements |-> <<>>]
        /\ result = [err |-> FALSE, sol |-> NilSlice]
        /\ seedIdx = 1
        /\ pc = <<>> /\ placers = <<>> /\ base = <<>> /\ top = <<>>
        /\ pending = <<>> /\ buf = <<>> /\ answering = <<>> /\ inbox = <<>>
        /\ done = FALSE
        /\ solutions = <<>>
        /\ suppc = "idle"
        /\ feeder = [pc |-> "idle", to |-> 0]
        /\ work = <<>>

IterFrame ==
    UNCHANGED <<cfg, result, seedIdx, pc, placers, base, top, pending, done,
                solutions, suppc, splitVars>>

\* Test_bitArrayPointSet_MaxGridPoints: ps.Add(grid.Point{Row: row, Col:
\* col}) in the loops over the rows and the columns of the largest grid.
IterFill ==
    /\ mainpc = "filling"
    /\ LET last == hist.fill.Col + 1 = MaxGridSize
           nxt == IF last THEN Point(hist.fill.Row + 1, 0)
                  ELSE Point(hist.fill.Row, hist.fill.Col + 1)
       IN  /\ hist' = [hist EXCEPT !.ps = BitArrayAdd("point", @, hist.fill),
                                   !.fill = nxt]
           /\ mainpc' = IF nxt.Row < MaxGridSize THEN "filling" ELSE "start"
    /\ IterFrame

\* it := ps.Iter(), by a caller or as the first statement of Elements().
IterIter ==
    /\ mainpc = "start"
    /\ mainpc' \in {"iterating", "listing"}
    /\ hist' = [hist EXCEPT !.next = IterStart(hist.ps)]
    /\ IterFrame

\* it.Next() returns a point and true; Elements() appends it to keys.
IterNextYields ==
    /\ mainpc \in {"iterating", "listing"}
    /\ hist.next.Row < MaxGridSize
    /\ hist' = [hist EXCEPT
                  !.yielded = Append(@, hist.next),
                  !.next = IterSeek(hist.ps, AdvanceStone(MaxGridSize, hist.next))]
    /\ UNCHANGED mainpc
    /\ IterFrame

\* it.Next() returns false to the caller.
IterNextExhausted ==
    /\ mainpc = "iterating"
    /\ hist.next.Row >= MaxGridSize
    /\ mainpc' = "exhausted"
    /\ UNCHANGED hist
    /\ IterFrame

\* it.Next() returns false in Elements(), which returns keys.
IterElementsReturns ==
    /\ mainpc = "listing"
    /\ hist.next.Row >= MaxGridSize
    /\ mainpc' = "listed"
    /\ hist' = [hist EXCEPT !.elements = hist.yielded]
    /\ IterFrame

IterNext ==
    IterFill \/ IterIter \/ IterNextYields \/ IterNextExhausted \/ IterElementsReturns

IterSpec == IterInit /\ [][IterNext]_vars

\* The members of a BitArrayPointSet over the largest grid, by Has.
PointMembers(ps) ==
    {p \in GridPoints(MaxGridSize) : BitArrayHas("point", ps, p)}

\* s lists points in row-major order, none twice.
RowMajor(s) == \A i \in 1 .. Len(s) - 1 : LessThan(s[i], s[i + 1])

\* s lists exactly the members of ps, in row-major order, each once.
ListsMembers(s, ps) ==
    /\ RowMajor(s)
    /\ NewPointSet(s) = PointMembers(ps)
    /\ Len(s) = Cardinality(PointMembers(ps))

\* C37: the points Next has yielded are members in row-major order with no
\* member before the iterator's position left out; when Next reports
\* exhaustion they are exactly the members, each once, and Elements()
\* returns the same list: nothing for the empty set, just (0,0) for the
\* set that holds only (0,0), 196 points for the full 14x14 set.
C37_IterYieldsMembersInRowMajorOrder ==
    /\ mainpc \in {"iterating", "listing"} =>
          /\ RowMajor(hist.yielded)
          /\ NewPointSet(hist.yielded) =
                {p \in PointMembers(hist.ps) : LessThan(p, hist.next)}
          /\ hist.next.Row < MaxGridSize => hist.next \in PointMembers(hist.ps)
    /\ mainpc = "exhausted" => ListsMembers(hist.yielded, hist.ps)
    /\ mainpc = "listed" =>
          /\ ListsMembers(hist.elements, hist.ps)
          /\ PointMembers(hist.ps) = {} => hist.elements = <<>>
          /\ PointMembers(hist.ps) = {ZeroPoint} => hist.elements = <<ZeroPoint>>
          /\ PointMembers(hist.ps) = GridPoints(MaxGridSize) =>
                Len(hist.elements) = MaxGridSize * MaxGridSize

\* C37 witness: the iterator over the full 14x14 set is exhausted after
\* yielding 196 points.
C37_FullSetIterated ==
    /\ cfg.solver = "iter" /\ mainpc = "exhausted"
    /\ Len(hist.yielded) = 196
    /\ PointMembers(hist.ps) = GridPoints(MaxGridSize)

(***************************************************************************)
(* SeparationSetIterator, call by call.                                    *)
(*   cfg.fam     the implementation of the set ("bit" or "map"),           *)
(*   cfg.grid    the grid size NewSeparationSetIteratorForGrid is given,   *)
(*               0 for NewSeparationSetIterator,                           *)
(*   hist.ss     the set, hist.sep and hist.maxSep the iterator's fields,  *)
(*   hist.yielded the values Next has returned with true.                  *)
(***************************************************************************)
MaxIterSeps == 5

\* The separations the sets are built from, the first MaxIterSeps of these.
SepIterPool ==
    LET all == <<2, 8, 18, 0, MaxSeparation, 1, 64, 63>>
    IN  {all[i] : i \in 1 .. MaxIterSeps}

\* The separation set of family fam that holds the values of S.
RECURSIVE SeparationSetOf(_, _)
SeparationSetOf(fam, S) ==
    IF fam = "map" THEN S
    ELSE IF S = {} THEN EmptyBitArray("separation")
    ELSE LET v == CHOOSE w \in S : TRUE
         IN  BitArrayAdd("separation", SeparationSetOf(fam, S \ {v}), v)

\* ss.Has(sep)
SeparationSetHas(fam, ss, sep) ==
    IF fam = "map" THEN sep \in ss ELSE BitArrayHas("separation", ss, sep)

\* ss.Elements(), as a set.
SeparationSetElements(fam, ss) ==
    IF fam = "map" THEN ss ELSE BitArraySeparationElements(ss)

\* uint16(g.Size-1) * uint16(g.Size-1) * 2, MaxSeparation without a grid.
IterMaxSep(g) ==
    IF g = 0 THEN MaxSeparation
    ELSE ((((g - 1) % 256) * ((g - 1) % 256)) * 2) % 65536

\* The loop shared by the constructors and Next,
\*   for ssi.sep++; ssi.sep < ssi.maxSep+1 && !ss.Has(ssi.sep); ssi.sep++ {}
\* by its result: the least member above sep that is at most maxSep, or
\* maxSep+1 when there is none (sep+1 when that is already past maxSep).
IterAdvance(fam, ss, sep, maxSep) ==
    LET s == sep + 1
        ahead == {v \in s .. maxSep : SeparationSetHas(fam, ss, v)}
    IN  IF s >= maxSep + 1 THEN s
        ELSE IF ahead = {} THEN maxSep + 1
        ELSE CHOOSE v \in ahead : \A w \in ahead : v =< w

SepIterInit ==
    \E fam \in {"bit", "map"}, g \in 0 .. MaxSeqSize, S \in SUBSET SepIterPool :
        /\ cfg = [solver |-> "sepiter", fam |-> fam, grid |-> g]
        /\ mainpc = "start"
        /\ hist = [ss |-> SeparationSetOf(fam, S), sep |-> 0, maxSep |-> 0,
                   yielded |-> <<>>]
        /\ result = [err |-> FALSE, sol |-> NilSlice]
        /\ seedIdx = 1
        /\ pc = <<>> /\ placers = <<>> /\ base = <<>> /\ top = <<>>
        /\ pending = <<>> /\ buf = <<>> /\ answering = <<>> /\ inbox = <<>>
        /\ done = FALSE
        /\ solutions = <<>>
        /\ suppc = "idle"
        /\ feeder = [pc |-> "idle", to |-> 0]
        /\ work = <<>>

\* NewSeparationSetIterator(ss) and NewSeparationSetIteratorForGrid(ss, g)
SepIterNew ==
    /\ mainpc = "start"
    /\ mainpc' = "iterating"
    /\ hist' = [hist EXCEPT
                  !.maxSep = IterMaxSep(cfg.grid),
                  !.sep = IterAdvance(cfg.fam, hist.ss, 0, IterMaxSep(cfg.grid))]
    /\ IterFrame

\* SeparationSetIterator.Next returns a value and true.
SepIterNextYields ==
    /\ mainpc = "iterating"
    /\ hist.sep =< hist.maxSep
    /\ hist' = [hist EXCEPT
                  !.yielded = Append(@, hist.sep),
                  !.sep = IterAdvance(cfg.fam, hist.ss, hist.sep, hist.maxSep)]
    /\ UNCHANGED mainpc
    /\ IterFrame

\* SeparationSetIterator.Next returns 0 and false.
SepIterNextExhausted ==
    /\ mainpc = "iterating"
    /\ hist.sep > hist.maxSep
    /\ mainpc' = "exhausted"
    /\ UNCHANGED hist
    /\ IterFrame

SepIterNext == SepIterNew \/ SepIterNextYields \/ SepIterNextExhausted

SepIterSpec == SepIterInit /\ [][SepIterNext]_vars

\* s lists exactly the values of S, in increasing order, each once.
ListsIncreasing(s, S) ==
    /\ \A i \in 1 .. Len(s) - 1 : s[i] < s[i + 1]
    /\ {s[i] : i \in 1 .. Len(s)} = S

\* C38: when Next reports exhaustion the iterator has yielded exactly the
\* values of ss.Elements() that are at most its bound (MaxSeparation, or
\* 2*(g.Size-1)^2 for a grid), each once and in increasing order.
C38_IteratorYieldsMembersUpToBound ==
    mainpc = "exhausted" =>
        ListsIncreasing(hist.yielded,
                        {v \in SeparationSetElements(cfg.fam, hist.ss) :
                            v =< IterMaxSep(cfg.grid)})

\* C38: the same for the members other than 0.
C38_IteratorYieldsNonzeroMembersUpToBound ==
    mainpc = "exhausted" =>
        ListsIncreasing(hist.yielded,
                        {v \in SeparationSetElements(cfg.fam, hist.ss) :
                            v # 0 /\ v =< IterMaxSep(cfg.grid)})

\* C38: the iterator over a set that holds 0 and 2 is exhausted after
\* yielding 2 alone.
C38_ZeroNotYielded ==
    /\ cfg.solver = "sepiter" /\ mainpc = "exhausted"
    /\ SeparationSetElements(cfg.fam, hist.ss) = {0, 2}
    /\ hist.yielded = <<2>>

\* C38: for a size-3 grid the set {8, 2, 18} has yielded 2 and 8.
C38_SizeThreeGridYieldsTwoAndEight ==
    /\ cfg.solver = "sepiter" /\ mainpc = "exhausted" /\ cfg.grid = 3
    /\ SeparationSetElements(cfg.fam, hist.ss) = {2, 8, 18}
    /\ hist.yielded = <<2, 8>>

(***************************************************************************)
(* grid.Separation of two points of the largest grid, and the bit-array    *)
(* sets that receive the value and the points.                             *)
(*   cfg.p1, cfg.p2  the points,                                           *)
(*   hist.sep        what Separation returned,                             *)
(*   hist.ss, hist.ps the separation set and the point set after Add.      *)
(***************************************************************************)
SeparationInit ==
    \E p1, p2 \in GridPoints(MaxGridSize) :
        /\ cfg = [solver |-> "separation", p1 |-> p1, p2 |-> p2]
        /\ mainpc = "start"
        /\ hist = [sep |-> 0, ss |-> EmptyBitArray("separation"),
                   ps |-> EmptyBitArray("point")]
        /\ result = [err |-> FALSE, sol |-> NilSlice]
        /\ seedIdx = 1
        /\ pc = <<>> /\ placers = <<>> /\ base = <<>> /\ top = <<>>
        /\ pending = <<>> /\ buf = <<>> /\ answering = <<>> /\ inbox = <<>>
        /\ done = FALSE
        /\ solutions = <<>>
        /\ suppc = "idle"
        /\ feeder = [pc |-> "idle", to |-> 0]
        /\ work = <<>>

\* s := grid.Separation(p1, p2)
SeparationCall ==
    /\ mainpc = "start"
    /\ mainpc' = "computed"
    /\ hist' = [hist EXCEPT !.sep = Separation(cfg.p1, cfg.p2)]
    /\ IterFrame

\* ss.Add(s); ps.Add(p1); ps.Add(p2) on empty bit-array sets.
BitArrayAddCalls ==
    /\ mainpc = "computed"
    /\ mainpc' = "added"
    /\ hist' = [hist EXCEPT
                  !.ss = BitArrayAdd("separation", @, hist.sep),
                  !.ps = BitArrayAdd("point",
                                     BitArrayAdd("point", @, cfg.p1), cfg.p2)]
    /\ IterFrame

SeparationNext == SeparationCall \/ BitArrayAddCalls

SeparationSpec == SeparationInit /\ [][SeparationNext]_vars

\* The element v of a set of the given kind has a word inside the array
\* and a bit inside the word.
IndexesInside(kind, v) ==
    /\ WordOf(kind, v) \in DOMAIN EmptyBitArray(kind)
    /\ MaskOf(kind, v) # {}
    /\ MaskOf(kind, v) \subseteq 0 .. (IF kind = "separation" THEN 63 ELSE 15)

\* C39: for two points of the 14x14 grid Separation returns the squared
\* distance itself, which fits int16 and is at most MaxSeparation = 338;
\* the value and the points index inside the bit arrays, and after Add the
\* sets answer Has with true for exactly the value added and the points
\* added, among all values up to MaxSeparation and all points of the grid.
C39_SeparationExactAndIndexesInRange ==
    /\ mainpc \in {"computed", "added"} =>
          /\ hist.sep = SquaredDistance(cfg.p1, cfg.p2)
          /\ SquaredDistance(cfg.p1, cfg.p2) < 32768
          /\ hist.sep =< MaxSeparation
          /\ MaxSeparation = 338
          /\ IndexesInside("separation", hist.sep)
          /\ IndexesInside("point", cfg.p1)
          /\ IndexesInside("point", cfg.p2)
    /\ mainpc = "added" =>
          /\ \A v \in 0 .. MaxSeparation :
                BitArrayHas("separation", hist.ss, v) <=> v = hist.sep
          /\ \A q \in GridPoints(MaxGridSize) :
                BitArrayHas("point", hist.ps, q) <=> q \in {cfg.p1, cfg.p2}

\* C39 witness: the separation of two opposite corners of the 14x14 grid,
\* 338, and the corners have been added to the sets.
C39_CornerToCornerAdded ==
    /\ cfg.solver = "separation" /\ mainpc = "added"
    /\ cfg.p1 = ZeroPoint
    /\ cfg.p2 = Point(MaxGridSize - 1, MaxGridSize - 1)
    /\ hist.sep = 338

=============================================================================
